---- MODULE Spec2Model ----
(***************************************************************************)
(* FinAA: the application state controller (App.tsx), the storage backend  *)
(* abstraction (GoogleDriveService) and the local key-value store, as one  *)
(* event-loop state machine.  A step is one run-to-completion piece of     *)
(* JavaScript: an event handler up to its first await, or the continuation *)
(* of an await when the awaited promise settles.                           *)
(*                                                                         *)
(* Modelling decisions:                                                    *)
(*  - setUser and the other state setters take effect in the step that     *)
(*    calls them; a handler that awaits keeps the values of the render it  *)
(*    was created in.                                                      *)
(*  - CLIENT_ID is a deployment setting: isConfigured is either value.     *)
(*  - The terms dialog and the vault gate are drawn over the tabs; no      *)
(*    handler of the controller reads them, so no intent is guarded by     *)
(*    them.  The tab the view shows is set by addEntries and read by no    *)
(*    operation of the model; the navigation buttons are not modelled.     *)
(*  - IndexedDB runs the readwrite transactions on one store in the order  *)
(*    they were created; the file system and the remote store promise no   *)
(*    order between concurrent requests.                                   *)
(*  - Settings objects live in a heap (settingsObj) because snapshots      *)
(*    share them by reference and syncToCloud writes into them.            *)
(***************************************************************************)
EXTENDS Integers, Sequences, FiniteSets, TLC

\* ------------------------------------------------------------------ bounds
MaxTasks == 3      \* asynchronous tasks (syncToCloud / updateExchangeRates) started in a run
MaxEntries == 1    \* entry identifiers handed out by crypto.randomUUID() in a run
MaxTime == 2       \* distinct readings of new Date() in a run
MaxSettings == 2   \* settings objects allocated in a run

\* ------------------------------------------------------- program constants
Modes == {"drive", "local-db", "local-fs"}
BaseCurrency == "USD"
Currencies == {"USD", "EUR"}
RateVals == {2}

NoUser == [none |-> "user"]
NoDoc == [none |-> "doc"]
NoRates == [none |-> "rates"]
NoLegacy == "none"
NoScan == [none |-> "scan"]
NoGoals == <<"undefined">>     \* a document without the goals field

ErrConfig == "Google Drive integration not configured."
ErrTimeout == "Login timed out."
ErrFolder == "Local folder access is required for this mode."
ErrStorage == "Could not access storage. Check permissions."
ErrClient == "TypeError"
NoError == "null"
ErrNoPasskey == "No recovery passkey configured for this vault."
ErrInvalidPasskey == "Invalid passkey. Please check the emergency instructions."

\* ----------------------------------------------------------------- helpers
Min(a, b) == IF a < b THEN a ELSE b

\* the clock at the next event that reads it (readings are capped at MaxTime)
Tick(n) == Min(n + 1, MaxTime)

Range(s) == {s[i] : i \in 1..Len(s)}

\* MapReplace that stops at the first entry of the identifier
RECURSIVE MapReplaceFirst(_, _)
MapReplaceFirst(es, x) ==
  IF es = <<>> THEN <<>>
  ELSE IF Head(es).id = x.id THEN <<x>> \o Tail(es)
  ELSE <<Head(es)>> \o MapReplaceFirst(Tail(es), x)

\* entries.map(e => e.id === x.id ? x : e)
RECURSIVE MapReplace(_, _)
MapReplace(es, x) ==
  IF es = <<>> THEN <<>>
  ELSE <<IF Head(es).id = x.id THEN x ELSE Head(es)>> \o MapReplace(Tail(es), x)

\* a FinanceEntry as the form, the scanner and the CSV importer build it:
\* the currency is always set (res.currency || baseCurrency)
NewEntry(i, c, att) ==
  [id |-> i, currency |-> c, amount |-> 1, category |-> "Wants", att |-> att]

\* settings of createInitialData()
InitialSettings ==
  [currency |-> BaseCurrency, biometricEnabled |-> FALSE,
   termsAccepted |-> FALSE, spreadsheetId |-> 0]

\* createInitialData(): the snapshot, given the settings object it allocates
CreateInitialData(ref, t) ==
  [entries |-> <<>>, goals |-> <<>>, lastSynced |-> t,
   exchangeRates |-> NoRates, legacy |-> NoLegacy, settings |-> ref]

\* a document left in a backend by an earlier session of the program, written
\* before the goals field existed
EarlierDoc ==
  [entries |-> <<[id |-> 0, currency |-> "EUR", amount |-> 1,
                  category |-> "Wants", att |-> FALSE]>>,
   goals |-> NoGoals, lastSynced |-> 0, exchangeRates |-> NoRates,
   legacy |-> NoLegacy,
   settings |-> [currency |-> BaseCurrency, biometricEnabled |-> TRUE,
                 termsAccepted |-> TRUE, spreadsheetId |-> 0]]

\* Array.from(new Set(entries.map(e => e.currency).filter(Boolean)))
CurrenciesUsed(u) == {e.currency : e \in Range(u.entries)}

\* fetchExchangeRates: targets after removing the base currency
Targets(base, used) == used \ {base}

\* fetchExchangeRates, lines 61-69: the identity entry first, then every
\* item of the answer assigned over it
RatesFromResponse(base, resp) ==
  [c \in {base} \cup DOMAIN resp |-> IF c \in DOMAIN resp THEN resp[c] ELSE 1]

\* answers of the exchange-rate service: any table over some of the codes
Responses == UNION {[D -> RateVals] : D \in SUBSET Currencies}

\* currency columns of the files given to the CSV importer and of the
\* transactions the document scanner finds
Batches == {<<>>, <<"USD">>, <<"EUR">>, <<"EUR", "USD">>}

\* ---------------------------------------------------------------- passkeys
\* strings are sequences of one-character strings
LowerCase == <<"a", "b", "c", "d", "e", "f", "g", "h", "i", "j", "k", "l", "m",
               "n", "o", "p", "q", "r", "s", "t", "u", "v", "w", "x", "y", "z">>
UpperCase == <<"A", "B", "C", "D", "E", "F", "G", "H", "I", "J", "K", "L", "M",
               "N", "O", "P", "Q", "R", "S", "T", "U", "V", "W", "X", "Y", "Z">>

\* charset of handleGeneratePasskey
Charset == <<"A", "B", "C", "D", "E", "F", "G", "H", "J", "K", "L", "M", "N",
             "P", "Q", "R", "S", "T", "U", "V", "W", "X", "Y", "Z",
             "2", "3", "4", "5", "6", "7", "8", "9">>
PasskeyChars == 16     \* the loop bound of handleGeneratePasskey
BlockChars == 4        \* a hyphen goes before every fourth character

\* variant of GenerateFrom without the i > 0 guard of the hyphen
RECURSIVE GenerateFromHyphenFirst(_, _, _)
GenerateFromHyphenFirst(i, passkey, draws) ==
  IF i >= PasskeyChars THEN passkey
  ELSE GenerateFromHyphenFirst(i + 1,
         (IF i % BlockChars = 0 THEN passkey \o <<"-">> ELSE passkey)
           \o <<Charset[draws[i + 1] + 1]>>,
         draws)

\* handleGeneratePasskey lines 41-45 from iteration i on; draws[i + 1] is
\* Math.floor(Math.random() * charset.length) of iteration i
RECURSIVE GenerateFrom(_, _, _)
GenerateFrom(i, passkey, draws) ==
  IF i >= PasskeyChars THEN passkey
  ELSE GenerateFrom(i + 1,
         (IF i > 0 /\ i % BlockChars = 0 THEN passkey \o <<"-">> ELSE passkey)
           \o <<Charset[draws[i + 1] + 1]>>,
         draws)

GeneratePasskey(draws) == GenerateFrom(0, <<>>, draws)

\* String.prototype.toUpperCase on one character
UpperChar(c) ==
  IF \E k \in 1..Len(LowerCase) : LowerCase[k] = c
  THEN UpperCase[CHOOSE k \in 1..Len(LowerCase) : LowerCase[k] = c]
  ELSE c

ToUpperCase(s) == [k \in 1..Len(s) |-> UpperChar(s[k])]

\* the characters \s matches
IsSpace(c) == c \in {" ", "\t"}

\* String.prototype.trim
RECURSIVE TrimStart(_)
TrimStart(s) ==
  IF s # <<>> /\ IsSpace(Head(s)) THEN TrimStart(Tail(s)) ELSE s

RECURSIVE TrimEnd(_)
TrimEnd(s) ==
  IF s # <<>> /\ IsSpace(s[Len(s)]) THEN TrimEnd(SubSeq(s, 1, Len(s) - 1))
  ELSE s

Trim(s) == TrimEnd(TrimStart(s))

\* s.replace(/\s/g, '')
RemoveSpaces(s) == SelectSeq(s, LAMBDA c : ~IsSpace(c))

\* s.replace(/[-\s]/g, '')
RemoveHyphensAndSpaces(s) == SelectSeq(s, LAMBDA c : ~IsSpace(c) /\ c # "-")

\* handlePasskeyUnlock line 559
NormalizedInput(input) == RemoveSpaces(ToUpperCase(Trim(input)))

\* handlePasskeyUnlock line 560
NormalizedPasskey(stored) == RemoveHyphensAndSpaces(ToUpperCase(Trim(stored)))

\* handlePasskeyUnlock line 562
PasskeyAccepted(input, stored) == NormalizedInput(input) = NormalizedPasskey(stored)

\* the draws behind the profile "K1" that UpdateLegacy stores
K1Draws == [i \in 1..PasskeyChars |-> IF i = 1 THEN 31 ELSE 0]

\* legacy?.recoveryPasskey: the empty string when there is no profile
RecoveryPasskey(l) == IF l = NoLegacy THEN <<>> ELSE GeneratePasskey(K1Draws)

VARIABLES
  user,            \* App state: UserData | null
  isAuthenticated, isLoading, isVaultLocked, activeTab, syncStatus, authError,
  settingsObj,     \* heap of settings objects (snapshots share them by reference)
  mode, isConfigured, tokenClient, accessToken, directoryHandle,  \* GoogleDriveService
  consentOpen,     \* requestAccessToken() issued and not yet answered
  loginPc,         \* position of the running handleLogin, "idle" when none
  loginData,       \* local `data` of handleLogin across its awaits
  idbDoc, fsDoc,   \* persisted document of the two local backends
  driveVault, driveSheet, \* remote files named FILE_NAME / SHEET_NAME, oldest first
  tasks,           \* in-flight syncToCloud / updateExchangeRates calls
  nextTask, nextId, now,
  timers,          \* pending setTimeout(() => setSyncStatus('idle'), 2000)
  vault,           \* state of the SecurityVault component
  calc,            \* a pure function under check: its inputs, then its result
  scan             \* the running handleFileUpload, NoScan when none

vars == <<user, isAuthenticated, isLoading, isVaultLocked, activeTab, syncStatus,
          authError, settingsObj, mode, isConfigured, tokenClient, accessToken,
          consentOpen, directoryHandle, loginPc, loginData, idbDoc, fsDoc, driveVault,
          driveSheet, tasks, nextTask, nextId, now, timers, scan, vault, calc>>

\* --------------------------------------------------------- state functions
\* variant of Serialize that leaves the goals out of the document
SerializeDropsGoals(u) ==
  [u EXCEPT !.settings = settingsObj[u.settings], !.goals = NoGoals]

\* JSON.stringify(data) / structured clone: the settings object by value
Serialize(u) == [u EXCEPT !.settings = settingsObj[u.settings]]

\* JSON.parse / response.result: the snapshot, its settings in a fresh object
Parse(doc, ref) == [doc EXCEPT !.settings = ref]

\* the document a login in mode m finds (findFile takes files[0])
PersistedDoc(m) ==
  CASE m = "local-db" -> idbDoc
    [] m = "local-fs" -> fsDoc
    [] m = "drive" -> IF driveVault = <<>> THEN NoDoc ELSE driveVault[1]

\* no continuation of an already-resolved promise is queued
NoMicrotask == \A tk \in tasks : tk.pc # "fetchNow"

\* the first pc of driveService.saveData(data) in the current mode
SavePc(m) == IF m = "drive" THEN "find1" ELSE "put"

\* local-db: store.put(data, key) clones the value when saveData is called;
\* the other modes serialise after their first await
IssueContent(m, u, heap) ==
  IF m = "local-db" THEN [u EXCEPT !.settings = heap[u.settings]] ELSE NoDoc

Task(tid, kind, pc, u, content, ord) ==
  [tid |-> tid, kind |-> kind, pc |-> pc, data |-> u, fileId |-> 0,
   content |-> content, ord |-> ord]

Max(S) == CHOOSE x \in S : \A y \in S : y <= x

\* position of a new request in the order the backend receives them
NextOrd(m, ts) ==
  IF m = "local-db" THEN 1 + Max({tk.ord : tk \in ts} \cup {0}) ELSE 0

\* updateExchangeRates(userData) up to its first await: nothing when no entry
\* carries a currency; fetchExchangeRates answers at once when only the base
\* currency is used
RatesTask(tid, u, heap) ==
  IF CurrenciesUsed(u) = {} THEN {}
  ELSE {Task(tid, "rates",
             IF Targets(heap[u.settings].currency, CurrenciesUsed(u)) = {}
             THEN "fetchNow" ELSE "fetch", u, NoDoc, 0)}

\* syncToCloud(newData) up to its first await
SyncTask(tid, m, u, heap, ord) ==
  Task(tid, "sync", SavePc(m), u, IssueContent(m, u, heap), ord)


\* SecurityVault's useState initial values, `enabled` being the prop at mount
Mounted(enabled) ==
  [isLocked |-> enabled, error |-> NoError, showPasskeyField |-> FALSE,
   passkeyInput |-> <<>>]

\* no pure function is under check
NoCalc == [op |-> "none"]

\* the component is not rendered before the first authenticated render
NoVault == Mounted(FALSE)

\* -------------------------------------------------------------------- Init
\* the state after construction of App, GoogleDriveService and the stores
SessionInit ==
  /\ user = NoUser
  /\ isAuthenticated = FALSE
  /\ isLoading = TRUE
  /\ isVaultLocked = FALSE
  /\ activeTab = "command"
  /\ syncStatus = "idle"
  /\ authError = NoError
  /\ settingsObj = <<>>
  /\ mode = "local-db"
  /\ isConfigured \in BOOLEAN       \* CLIENT_ID provisioned or the placeholder
  /\ tokenClient = FALSE
  /\ accessToken = FALSE
  /\ consentOpen = FALSE
  /\ directoryHandle = FALSE
  /\ loginPc = "init"
  /\ loginData = NoUser
  /\ \E d \in {NoDoc, EarlierDoc} :
       /\ idbDoc = d
       /\ fsDoc = d
       /\ driveVault = IF d = NoDoc THEN <<>> ELSE <<d>>
  /\ driveSheet = <<>>
  /\ tasks = {}
  /\ nextTask = 1
  /\ nextId = 1
  /\ now = 0
  /\ timers = 0
  /\ scan = NoScan
  /\ vault = NoVault

Init == SessionInit /\ calc = NoCalc

\* a session that stays as constructed while a pure function is under check
sessionVars ==
  <<user, isAuthenticated, isLoading, isVaultLocked, activeTab, syncStatus,
    authError, settingsObj, mode, isConfigured, tokenClient, accessToken,
    consentOpen, directoryHandle, loginPc, loginData, idbDoc, fsDoc, driveVault,
    driveSheet, tasks, nextTask, nextId, now, timers, scan, vault>>

NoSession == SessionInit /\ ~isConfigured /\ idbDoc = NoDoc

\* ------------------------------------------------------------------- login
\* useEffect / initDrive: driveService.init() settles, isLoading ends
InitDrive ==
  /\ loginPc = "init"
  /\ \E gapiOk \in BOOLEAN : tokenClient' = (isConfigured /\ gapiOk)
  /\ isLoading' = FALSE
  /\ loginPc' = "idle"
  /\ UNCHANGED <<user, isAuthenticated, isVaultLocked, vault, calc, activeTab, syncStatus,
                 authError, settingsObj, mode, isConfigured, accessToken,
                 consentOpen, directoryHandle, loginData, idbDoc, fsDoc,
                 driveVault, driveSheet, tasks, nextTask, nextId, now, timers,
                 scan>>

\* variant of LoginFails without the finally of line 83: the spinner stays
LoginFailsKeepsLoading(msg) ==
  /\ authError' = msg
  /\ isLoading' = TRUE
  /\ loginPc' = "idle"
  /\ loginData' = NoUser
  /\ settingsObj' = <<>>
  /\ UNCHANGED <<user, isAuthenticated, isVaultLocked, vault, calc, tasks, nextTask>>

\* the catch and finally of handleLogin
LoginFails(msg) ==
  /\ authError' = msg
  /\ isLoading' = FALSE
  /\ loginPc' = "idle"
  /\ loginData' = NoUser
  /\ settingsObj' = <<>>       \* the abandoned `data` is unreachable
  /\ UNCHANGED <<user, isAuthenticated, isVaultLocked, vault, calc, tasks, nextTask>>

\* variant of WithDefaults without line 72
WithDefaultsKeepsMissing(data) == data

\* handleLogin line 72: if (!data.goals) data.goals = []
WithDefaults(data) ==
  IF data.goals = NoGoals THEN [data EXCEPT !.goals = <<>>] ELSE data

\* handleLogin lines 72-79 and the finally: data becomes the canonical state
LoginFinish(loaded, heap) ==
  LET data == WithDefaults(loaded) IN
  /\ user' = data
  /\ settingsObj' = heap
  /\ isAuthenticated' = TRUE
  /\ isVaultLocked' = (isVaultLocked \/ heap[data.settings].biometricEnabled)
  /\ vault' = Mounted(isVaultLocked')
  /\ UNCHANGED calc
  /\ tasks' = tasks \cup RatesTask(nextTask, data, heap)
  /\ nextTask' = nextTask + Cardinality(RatesTask(nextTask, data, heap))
  /\ authError' = NoError
  /\ isLoading' = FALSE
  /\ loginPc' = "idle"
  /\ loginData' = NoUser

\* handleLogin(mode) up to its first pending await
HandleLogin(m) ==
  /\ loginPc = "idle" /\ ~isLoading /\ ~isAuthenticated
  /\ mode' = m
  /\ UNCHANGED <<activeTab, syncStatus, isConfigured, tokenClient, accessToken,
                 directoryHandle, idbDoc, fsDoc, driveVault, driveSheet, nextId,
                 now, timers, scan, calc>>
  /\ CASE m = "drive" /\ ~isConfigured ->
            LoginFails(ErrConfig) /\ UNCHANGED consentOpen
       [] m = "drive" /\ isConfigured /\ ~tokenClient ->
            LoginFails(ErrClient) /\ UNCHANGED consentOpen
       [] m = "drive" /\ isConfigured /\ tokenClient ->
            /\ consentOpen' = TRUE
            /\ authError' = NoError /\ isLoading' = TRUE /\ loginPc' = "consent"
            /\ UNCHANGED <<user, isAuthenticated, isVaultLocked, vault, calc, settingsObj,
                           tasks, nextTask, loginData>>
       [] m = "local-fs" ->
            /\ authError' = NoError /\ isLoading' = TRUE /\ loginPc' = "picker"
            /\ UNCHANGED <<user, isAuthenticated, isVaultLocked, vault, calc, settingsObj,
                           tasks, nextTask, loginData, consentOpen>>
       [] m = "local-db" ->
            /\ authError' = NoError /\ isLoading' = TRUE /\ loginPc' = "download"
            /\ UNCHANGED <<user, isAuthenticated, isVaultLocked, vault, calc, settingsObj,
                           tasks, nextTask, loginData, consentOpen>>

\* the token client's callback: the consent flow answers
TokenCallback(granted) ==
  /\ consentOpen
  /\ consentOpen' = FALSE
  /\ accessToken' = (accessToken \/ granted)
  /\ UNCHANGED <<user, isAuthenticated, isLoading, isVaultLocked, vault, calc, activeTab,
                 syncStatus, authError, settingsObj, mode, isConfigured,
                 tokenClient, directoryHandle, loginPc, loginData, idbDoc, fsDoc,
                 driveVault, driveSheet, tasks, nextTask, nextId, now, timers,
                 scan>>

\* the 500 ms interval of login('drive') sees the token: resolve(true), and
\* handleLogin goes on to findFile
CheckToken ==
  /\ loginPc = "consent" /\ accessToken
  /\ loginPc' = "find"
  /\ UNCHANGED <<user, isAuthenticated, isLoading, isVaultLocked, vault, calc, activeTab,
                 syncStatus, authError, settingsObj, mode, isConfigured,
                 tokenClient, accessToken, consentOpen, directoryHandle,
                 loginData, idbDoc, fsDoc, driveVault, driveSheet, tasks,
                 nextTask, nextId, now, timers, scan, calc>>

\* the 60 s timer of login('drive'): the interval is cleared; reject only
\* when there is no token
LoginTimeout ==
  /\ loginPc = "consent"
  /\ UNCHANGED <<activeTab, syncStatus, mode, isConfigured, tokenClient,
                 accessToken, consentOpen, directoryHandle, idbDoc, fsDoc,
                 driveVault, driveSheet, nextId, now, timers, scan>>
  /\ IF ~accessToken THEN LoginFails(ErrTimeout)
     ELSE /\ loginPc' = "stuck"
          /\ UNCHANGED <<user, isAuthenticated, isLoading, isVaultLocked, vault, calc,
                         authError, settingsObj, tasks, nextTask, loginData>>

\* login('local-fs'): showDirectoryPicker settles
DirectoryPicked(granted) ==
  /\ loginPc = "picker"
  /\ UNCHANGED <<activeTab, syncStatus, mode, isConfigured, tokenClient,
                 accessToken, consentOpen, idbDoc, fsDoc, driveVault, driveSheet,
                 nextId, now, timers, scan>>
  /\ IF granted
     THEN /\ directoryHandle' = TRUE
          /\ loginPc' = "download"
          /\ UNCHANGED <<user, isAuthenticated, isLoading, isVaultLocked, vault, calc,
                         authError, settingsObj, tasks, nextTask, loginData>>
     ELSE LoginFails(ErrFolder) /\ UNCHANGED directoryHandle

\* handleLogin line 58 in drive mode: files.list answers or fails
FindFileDone(ok, t) ==
  /\ loginPc = "find"
  /\ t = Tick(now)
  /\ UNCHANGED <<activeTab, syncStatus, mode, isConfigured, tokenClient,
                 accessToken, consentOpen, directoryHandle, idbDoc, fsDoc,
                 driveVault, driveSheet, nextId, timers, scan>>
  /\ IF ~ok THEN LoginFails(ErrStorage) /\ UNCHANGED now
     ELSE IF driveVault # <<>>
     THEN /\ loginPc' = "download"
          /\ UNCHANGED <<user, isAuthenticated, isLoading, isVaultLocked, vault, calc,
                         authError, settingsObj, tasks, nextTask, loginData, now>>
     ELSE \* data = createInitialData(); saveData(data) starts with findFile
          /\ Len(settingsObj) < MaxSettings
          /\ now' = t
          /\ settingsObj' = Append(settingsObj, InitialSettings)
          /\ loginData' = [data |-> CreateInitialData(Len(settingsObj) + 1, t),
                           fileId |-> 0, content |-> NoDoc]
          /\ loginPc' = "saveFind"
          /\ UNCHANGED <<user, isAuthenticated, isLoading, isVaultLocked, vault, calc,
                         authError, tasks, nextTask>>

\* variant of DownloadDone without the catch of lines 64-66: a failed
\* download ends the login
DownloadDoneNoCatch(ok, t) ==
  /\ loginPc = "download"
  /\ t = Tick(now)
  /\ Len(settingsObj) < MaxSettings
  /\ UNCHANGED <<activeTab, syncStatus, mode, isConfigured, tokenClient,
                 accessToken, consentOpen, directoryHandle, idbDoc, fsDoc,
                 driveVault, driveSheet, nextId, timers, scan, now>>
  /\ LET ref == Len(settingsObj) + 1
         doc == PersistedDoc(mode)
     IN IF ok /\ doc # NoDoc
        THEN LoginFinish(Parse(doc, ref), Append(settingsObj, doc.settings))
        ELSE LoginFails(ErrStorage)

\* handleLogin lines 62-66: downloadData settles; a failure (no document, or
\* an I/O error) is caught and replaced by createInitialData()
DownloadDone(ok, t) ==
  /\ loginPc = "download"
  /\ t = Tick(now)
  /\ Len(settingsObj) < MaxSettings
  /\ UNCHANGED <<activeTab, syncStatus, mode, isConfigured, tokenClient,
                 accessToken, consentOpen, directoryHandle, idbDoc, fsDoc,
                 driveVault, driveSheet, nextId, timers, scan>>
  /\ LET ref == Len(settingsObj) + 1
         doc == PersistedDoc(mode)
     IN IF ok /\ doc # NoDoc
        THEN /\ now' = now
             /\ LoginFinish(Parse(doc, ref), Append(settingsObj, doc.settings))
        ELSE /\ now' = t
             /\ LoginFinish(CreateInitialData(ref, t),
                            Append(settingsObj, InitialSettings))

\* handleLogin line 69, saveData in drive mode: its findFile settles
LoginSaveFind(ok) ==
  /\ loginPc = "saveFind"
  /\ UNCHANGED <<activeTab, syncStatus, mode, isConfigured, tokenClient,
                 accessToken, consentOpen, directoryHandle, idbDoc, fsDoc,
                 driveVault, driveSheet, nextId, now, timers, scan>>
  /\ IF ~ok THEN LoginFails(ErrStorage)
     ELSE /\ loginData' = [loginData EXCEPT
                             !.fileId = IF driveVault = <<>> THEN 0 ELSE 1,
                             !.content = Serialize(loginData.data)]
          /\ loginPc' = "savePut"
          /\ UNCHANGED <<user, isAuthenticated, isLoading, isVaultLocked, vault, calc,
                         authError, settingsObj, tasks, nextTask>>

\* handleLogin line 69, saveData in drive mode: the upload settles
LoginSavePut(ok) ==
  /\ loginPc = "savePut"
  /\ UNCHANGED <<activeTab, syncStatus, mode, isConfigured, tokenClient,
                 accessToken, consentOpen, directoryHandle, idbDoc, fsDoc,
                 driveSheet, nextId, now, timers, scan>>
  /\ IF ~ok THEN LoginFails(ErrStorage) /\ UNCHANGED driveVault
     ELSE /\ driveVault' = IF loginData.fileId = 0
                           THEN Append(driveVault, loginData.content)
                           ELSE [driveVault EXCEPT ![loginData.fileId] = loginData.content]
          /\ LoginFinish(loginData.data, settingsObj)

\* --------------------------------------------------------------- mutations
\* variant of AddEntrySnapshot that leaves the entry out of the snapshot
AddEntrySnapshotWithoutEntry(u, e, t) ==
  [u EXCEPT !.lastSynced = t]

\* addEntry line 122
AddEntrySnapshot(u, e, t) ==
  [u EXCEPT !.entries = <<e>> \o @, !.lastSynced = t]

\* updateEntry line 130
UpdateEntrySnapshot(u, x, t) ==
  [u EXCEPT !.entries = MapReplace(@, x), !.lastSynced = t]

\* addEntries line 137
AddEntriesSnapshot(u, es, t) ==
  [u EXCEPT !.entries = es \o @, !.lastSynced = t]

\* updateLegacy line 146
UpdateLegacySnapshot(u, l, t) ==
  [u EXCEPT !.legacy = l, !.lastSynced = t]

\* acceptTerms line 153: the snapshot and the settings object it allocates
AcceptTermsSettings(st) == [st EXCEPT !.termsAccepted = TRUE]

AcceptTermsSnapshot(u, ref) == [u EXCEPT !.settings = ref]

\* updateExchangeRates line 44
RatesSnapshot(u, rates) == [u EXCEPT !.exchangeRates = rates]

\* variant of RefreshesRates in which every intent refreshes the rates
RefreshesRatesAlways(kind) == kind = kind

\* whether the intent goes on to call updateExchangeRates(updatedUser)
RefreshesRates(kind) == kind \in {"addEntry", "addEntries"}

\* setUser(updatedUser); syncToCloud(updatedUser); [updateExchangeRates(updatedUser)]
Commit(u2, heap, kind) ==
  LET rt == IF RefreshesRates(kind) THEN RatesTask(nextTask + 1, u2, heap)
            ELSE {}
  IN /\ nextTask + Cardinality(rt) <= MaxTasks
     /\ user' = u2
     /\ settingsObj' = heap
     /\ syncStatus' = "syncing"
     /\ tasks' = tasks \cup {SyncTask(nextTask, mode, u2, heap, NextOrd(mode, tasks))} \cup rt
     /\ nextTask' = nextTask + 1 + Cardinality(rt)

Ready == isAuthenticated /\ user # NoUser /\ NoMicrotask

\* FinanceForms.handleSubmit -> onAdd -> App.addEntry
AddEntry(c, t) ==
  /\ Ready
  /\ nextId <= MaxEntries
  /\ t = Tick(now)
  /\ LET e == NewEntry(nextId, c, FALSE)
     IN Commit(AddEntrySnapshot(user, e, t), settingsObj,
               "addEntry")
  /\ nextId' = nextId + 1
  /\ now' = t
  /\ UNCHANGED <<isAuthenticated, isLoading, isVaultLocked, vault, calc, activeTab, authError,
                 mode, isConfigured, tokenClient, accessToken, consentOpen,
                 directoryHandle, loginPc, loginData, idbDoc, fsDoc, driveVault,
                 driveSheet, timers, scan>>

\* MatrixItem.handleCategoryChange -> onUpdate -> App.updateEntry
UpdateEntry(i, cat, t) ==
  /\ Ready
  /\ i \in 1..Len(user.entries)
  /\ user.entries[i].category # cat
  /\ t = Tick(now)
  /\ LET x == [user.entries[i] EXCEPT !.category = cat]
     IN Commit(UpdateEntrySnapshot(user, x, t), settingsObj,
               "updateEntry")
  /\ now' = t
  /\ UNCHANGED <<isAuthenticated, isLoading, isVaultLocked, vault, calc, activeTab, authError,
                 mode, isConfigured, tokenClient, accessToken, consentOpen,
                 directoryHandle, loginPc, loginData, idbDoc, fsDoc, driveVault,
                 driveSheet, timers, scan, nextId>>

\* CsvImporter reader.onload -> onImport -> App.addEntries
AddEntries(cs, t) ==
  /\ Ready
  /\ nextId + Len(cs) - 1 <= MaxEntries
  /\ t = Tick(now)
  /\ LET es == [k \in 1..Len(cs) |-> NewEntry(nextId + k - 1, cs[k], FALSE)]
     IN Commit(AddEntriesSnapshot(user, es, t), settingsObj,
               "addEntries")
  /\ nextId' = nextId + Len(cs)
  /\ now' = t
  /\ activeTab' = "command"
  /\ UNCHANGED <<isAuthenticated, isLoading, isVaultLocked, vault, calc, authError,
                 mode, isConfigured, tokenClient, accessToken, consentOpen,
                 directoryHandle, loginPc, loginData, idbDoc, fsDoc, driveVault,
                 driveSheet, timers, scan>>

\* SafetyNet.handleGeneratePasskey -> onUpdateLegacy -> App.updateLegacy
UpdateLegacy(l, t) ==
  /\ Ready
  /\ t = Tick(now)
  /\ Commit(UpdateLegacySnapshot(user, l, t), settingsObj,
            "updateLegacy")
  /\ now' = t
  /\ UNCHANGED <<isAuthenticated, isLoading, isVaultLocked, vault, calc, activeTab, authError,
                 mode, isConfigured, tokenClient, accessToken, consentOpen,
                 directoryHandle, loginPc, loginData, idbDoc, fsDoc, driveVault,
                 driveSheet, timers, scan, nextId>>

\* PrivacyTermsModal onAccept -> App.acceptTerms; time passes, no Date is read
AcceptTerms(t) ==
  /\ Ready /\ ~settingsObj[user.settings].termsAccepted
  /\ Len(settingsObj) < MaxSettings
  /\ t = Tick(now)
  /\ Commit(AcceptTermsSnapshot(user, Len(settingsObj) + 1),
            Append(settingsObj, AcceptTermsSettings(settingsObj[user.settings])),
            "acceptTerms")
  /\ now' = t
  /\ UNCHANGED <<isAuthenticated, isLoading, isVaultLocked, vault, calc, activeTab, authError,
                 mode, isConfigured, tokenClient, accessToken, consentOpen,
                 directoryHandle, loginPc, loginData, idbDoc, fsDoc, driveVault,
                 driveSheet, timers, scan, nextId>>

\* ------------------------------------------------------ asynchronous tasks
\* variant of EndTask in which the catch of syncToCloud leaves the status
EndTaskKeepsStatus(tk, ok) ==
  /\ tasks' = tasks \ {tk}
  /\ IF tk.kind = "sync" /\ ok
     THEN syncStatus' = "saved" /\ timers' = timers + 1
     ELSE UNCHANGED <<syncStatus, timers>>

\* syncToCloud lines 112-117 for a sync task; the end of updateExchangeRates
\* (its catch only logs) for a rates task
EndTask(tk, ok) ==
  /\ tasks' = tasks \ {tk}
  /\ IF tk.kind = "sync"
     THEN IF ok THEN syncStatus' = "saved" /\ timers' = timers + 1
                ELSE syncStatus' = "idle" /\ UNCHANGED timers
     ELSE UNCHANGED <<syncStatus, timers>>

\* IndexedDB runs the readwrite transactions of one store in the order they
\* were created; the file system and the remote store promise no order
MayComplete(tk) ==
  mode = "local-db" =>
    \A o \in tasks : o.pc = "put" => tk.ord <= o.ord

\* variant of SaveLocalDone in which the backend keeps the document with the
\* later lastSynced instead of the one written last
SaveLocalDoneKeepsNewest(tk, ok) ==
  /\ tk \in tasks /\ tk.pc = "put" /\ mode # "drive"
  /\ NoMicrotask /\ MayComplete(tk)
  /\ IF ok /\ (PersistedDoc(mode) = NoDoc
               \/ PersistedDoc(mode).lastSynced <= tk.data.lastSynced)
     THEN IF mode = "local-db"
          THEN idbDoc' = tk.content /\ UNCHANGED fsDoc
          ELSE fsDoc' = Serialize(tk.data) /\ UNCHANGED idbDoc
     ELSE UNCHANGED <<idbDoc, fsDoc>>
  /\ EndTask(tk, ok)
  /\ UNCHANGED <<user, isAuthenticated, isLoading, isVaultLocked, vault, calc, activeTab,
                 authError, settingsObj, mode, isConfigured, tokenClient,
                 accessToken, consentOpen, directoryHandle, loginPc, loginData,
                 driveVault, driveSheet, nextTask, nextId, now, scan>>

\* saveData in a local mode settles: localDb.save / writable.close
SaveLocalDone(tk, ok) ==
  /\ tk \in tasks /\ tk.pc = "put" /\ mode # "drive"
  /\ NoMicrotask /\ MayComplete(tk)
  /\ IF ok
     THEN IF mode = "local-db"
          THEN idbDoc' = tk.content /\ UNCHANGED fsDoc
          ELSE fsDoc' = Serialize(tk.data) /\ UNCHANGED idbDoc
     ELSE UNCHANGED <<idbDoc, fsDoc>>
  /\ EndTask(tk, ok)
  /\ UNCHANGED <<user, isAuthenticated, isLoading, isVaultLocked, vault, calc, activeTab,
                 authError, settingsObj, mode, isConfigured, tokenClient,
                 accessToken, consentOpen, directoryHandle, loginPc, loginData,
                 driveVault, driveSheet, nextTask, nextId, now, scan>>

\* saveData in drive mode, line 376: findFile(FILE_NAME) settles; the body is
\* serialised and the upload sent
DriveFindDone(tk, ok) ==
  /\ tk \in tasks /\ tk.pc \in {"find1", "find2"} /\ NoMicrotask
  /\ IF ok
     THEN /\ tasks' = (tasks \ {tk}) \cup
               {[tk EXCEPT !.pc = IF tk.pc = "find1" THEN "put1" ELSE "put2",
                           !.fileId = IF driveVault = <<>> THEN 0 ELSE 1,
                           !.content = Serialize(tk.data)]}
          /\ UNCHANGED <<syncStatus, timers>>
     ELSE EndTask(tk, FALSE)
  /\ UNCHANGED <<user, isAuthenticated, isLoading, isVaultLocked, vault, calc, activeTab,
                 authError, settingsObj, mode, isConfigured, tokenClient,
                 accessToken, consentOpen, directoryHandle, loginPc, loginData,
                 idbDoc, fsDoc, driveVault, driveSheet, nextTask, nextId, now,
                 scan>>

\* saveData in drive mode, line 392: the upload (PATCH of fileId, or POST of a
\* new file) settles
DrivePutDone(tk, ok) ==
  /\ tk \in tasks /\ tk.pc \in {"put1", "put2"} /\ NoMicrotask
  /\ driveVault' = IF ~ok THEN driveVault
                   ELSE IF tk.fileId = 0 THEN Append(driveVault, tk.content)
                   ELSE [driveVault EXCEPT ![tk.fileId] = tk.content]
  /\ IF ok /\ tk.kind = "sync" /\ tk.pc = "put1"
     THEN \* syncToCloud line 106: syncToSpreadsheet starts with findFile
          /\ tasks' = (tasks \ {tk}) \cup {[tk EXCEPT !.pc = "sheetFind"]}
          /\ UNCHANGED <<syncStatus, timers>>
     ELSE EndTask(tk, ok)
  /\ UNCHANGED <<user, isAuthenticated, isLoading, isVaultLocked, vault, calc, activeTab,
                 authError, settingsObj, mode, isConfigured, tokenClient,
                 accessToken, consentOpen, directoryHandle, loginPc, loginData,
                 idbDoc, fsDoc, driveSheet, nextTask, nextId, now, scan>>

\* syncToSpreadsheet line 487: findFile(SHEET_NAME) settles
SheetFindDone(tk, ok) ==
  /\ tk \in tasks /\ tk.pc = "sheetFind" /\ NoMicrotask
  /\ IF ok
     THEN /\ tasks' = (tasks \ {tk}) \cup
               {[tk EXCEPT !.pc = "sheetPut",
                           !.fileId = IF driveSheet = <<>> THEN 0 ELSE 1]}
          /\ UNCHANGED <<syncStatus, timers>>
     ELSE EndTask(tk, FALSE)
  /\ UNCHANGED <<user, isAuthenticated, isLoading, isVaultLocked, vault, calc, activeTab,
                 authError, settingsObj, mode, isConfigured, tokenClient,
                 accessToken, consentOpen, directoryHandle, loginPc, loginData,
                 idbDoc, fsDoc, driveVault, driveSheet, nextTask, nextId, now,
                 scan>>

\* syncToSpreadsheet line 508 and syncToCloud lines 107-110: the mirror upload
\* settles; a new sheet id is written into the snapshot's settings object and
\* the snapshot saved again
SheetPutDone(tk, ok) ==
  /\ tk \in tasks /\ tk.pc = "sheetPut" /\ NoMicrotask
  /\ LET sheetId == IF tk.fileId = 0 THEN Len(driveSheet) + 1 ELSE tk.fileId
         ref == tk.data.settings
     IN IF ~ok
        THEN /\ EndTask(tk, FALSE)
             /\ UNCHANGED <<driveSheet, settingsObj>>
        ELSE /\ driveSheet' = IF tk.fileId = 0
                              THEN Append(driveSheet, tk.data.entries)
                              ELSE [driveSheet EXCEPT ![tk.fileId] = tk.data.entries]
             /\ IF settingsObj[ref].spreadsheetId # sheetId
                THEN /\ settingsObj' = [settingsObj EXCEPT ![ref].spreadsheetId = sheetId]
                     /\ tasks' = (tasks \ {tk}) \cup {[tk EXCEPT !.pc = "find2"]}
                     /\ UNCHANGED <<syncStatus, timers>>
                ELSE /\ EndTask(tk, TRUE)
                     /\ UNCHANGED settingsObj
  /\ UNCHANGED <<user, isAuthenticated, isLoading, isVaultLocked, vault, calc, activeTab,
                 authError, mode, isConfigured, tokenClient, accessToken,
                 consentOpen, directoryHandle, loginPc, loginData, idbDoc, fsDoc,
                 driveVault, nextTask, nextId, now, scan>>

\* what `await fetchExchangeRates(...)` can give
FetchOutcomes ==
  {[kind |-> "identity"], [kind |-> "throw"], [kind |-> "unparsable"]} \cup
  {[kind |-> "answer", resp |-> r] : r \in Responses}

\* fetchExchangeRates lines 58-73
RatesOf(base, out) ==
  IF out.kind = "answer" THEN RatesFromResponse(base, out.resp)
  ELSE [c \in {base} |-> 1]

\* updateExchangeRates lines 43-46: fetchExchangeRates settles; the table is
\* put on the snapshot the call was given, which becomes the canonical state
\* and is saved
RatesDone(tk, out) ==
  /\ tk \in tasks /\ tk.pc \in {"fetch", "fetchNow"}
  /\ tk.pc = "fetch" => NoMicrotask
  /\ (tk.pc = "fetchNow") = (out.kind = "identity")  \* the early return of line 18
  /\ IF out.kind = "throw"
     THEN /\ tasks' = tasks \ {tk}
          /\ UNCHANGED user
     ELSE LET u2 == RatesSnapshot(tk.data,
                      RatesOf(settingsObj[tk.data.settings].currency, out))
          IN /\ user' = u2
             /\ tasks' = (tasks \ {tk}) \cup
                  {[tk EXCEPT !.pc = SavePc(mode), !.data = u2,
                              !.content = IssueContent(mode, u2, settingsObj),
                              !.ord = NextOrd(mode, tasks)]}
  /\ UNCHANGED <<isAuthenticated, isLoading, isVaultLocked, vault, calc, activeTab, syncStatus,
                 authError, settingsObj, mode, isConfigured, tokenClient,
                 accessToken, consentOpen, directoryHandle, loginPc, loginData,
                 idbDoc, fsDoc, driveVault, driveSheet, nextTask, nextId, now,
                 timers, scan>>

\* syncToCloud line 113: the 2 s timer fires
SyncTimer ==
  /\ timers > 0 /\ NoMicrotask
  /\ syncStatus' = "idle"
  /\ timers' = timers - 1
  /\ UNCHANGED <<user, isAuthenticated, isLoading, isVaultLocked, vault, calc, activeTab,
                 authError, settingsObj, mode, isConfigured, tokenClient,
                 accessToken, consentOpen, directoryHandle, loginPc, loginData,
                 idbDoc, fsDoc, driveVault, driveSheet, tasks, nextTask, nextId,
                 now, scan>>

\* ----------------------------------------------------------- document scan
\* FinanceForms.handleFileUpload up to its first await; the handler keeps the
\* onAddBulk of the render it was created in, whose `user` is today's snapshot
ScanStart ==
  /\ Ready /\ scan = NoScan
  /\ scan' = [pc |-> "extract", base |-> user, todo |-> <<>>, built |-> <<>>]
  /\ UNCHANGED <<user, isAuthenticated, isLoading, isVaultLocked, vault, calc, activeTab,
                 syncStatus, authError, settingsObj, mode, isConfigured,
                 tokenClient, accessToken, consentOpen, directoryHandle, loginPc,
                 loginData, idbDoc, fsDoc, driveVault, driveSheet, tasks,
                 nextTask, nextId, now, timers>>

\* handleFileUpload lines 82-84 and 108-118: processDocument settles with the
\* currencies of the transactions it found, or fails
ScanExtracted(ok, cs) ==
  /\ scan # NoScan /\ scan.pc = "extract" /\ NoMicrotask
  /\ scan' = IF ok /\ cs # <<>> THEN [scan EXCEPT !.pc = "archive", !.todo = cs]
             ELSE NoScan
  /\ UNCHANGED <<user, isAuthenticated, isLoading, isVaultLocked, vault, calc, activeTab,
                 syncStatus, authError, settingsObj, mode, isConfigured,
                 tokenClient, accessToken, consentOpen, directoryHandle, loginPc,
                 loginData, idbDoc, fsDoc, driveVault, driveSheet, tasks,
                 nextTask, nextId, now, timers>>

\* archiveStatement lines 322-364: what the caller gets when the write of the
\* attachment succeeds or fails: a reference, null, or the exception
ArchiveStatement(m, ok) ==
  IF ok THEN "ref"
  ELSE IF m = "local-db" THEN "throw" ELSE "null"

\* handleFileUpload lines 88-107: archiveStatement settles for the next
\* result; after the last one onAddBulk(newEntries) is called
ArchiveDone(ok, t) ==
  /\ scan # NoScan /\ scan.pc = "archive" /\ NoMicrotask
  /\ t = Tick(now)
  /\ LET driveId == ArchiveStatement(mode, ok)
         e == NewEntry(nextId, Head(scan.todo), driveId = "ref")
         built == Append(scan.built, e)
     IN IF driveId = "throw"
        THEN \* the catch of line 111: the scan ends, nothing is added
             /\ scan' = NoScan
             /\ UNCHANGED <<user, settingsObj, syncStatus, tasks, nextTask,
                            nextId, now, activeTab>>
        ELSE /\ nextId <= MaxEntries
             /\ nextId' = nextId + 1
             /\ IF Tail(scan.todo) # <<>>
                THEN /\ scan' = [scan EXCEPT !.todo = Tail(@), !.built = built]
                     /\ UNCHANGED <<user, settingsObj, syncStatus, tasks,
                                    nextTask, now, activeTab>>
                ELSE /\ scan' = NoScan
                     /\ Commit(AddEntriesSnapshot(scan.base, built, t), settingsObj,
                               "addEntries")
                     /\ now' = t
                     /\ activeTab' = "command"
  /\ UNCHANGED <<isAuthenticated, isLoading, isVaultLocked, vault, calc, authError, mode,
                 isConfigured, tokenClient, accessToken, consentOpen,
                 directoryHandle, loginPc, loginData, idbDoc, fsDoc, driveVault,
                 driveSheet, timers>>

\* ---------------------------------------------------------- SecurityVault
\* what the user types into the passkey field: the passkey of "K1" as it is
\* displayed, in lower case without hyphens, with spaces for hyphens,
\* another generated passkey, and nothing (the field takes 19 characters)
Displayed == GeneratePasskey(K1Draws)

TypedInputs ==
  {Displayed,
   [k \in 1..PasskeyChars |-> IF k = 1 THEN "9" ELSE "a"],
   [k \in 1..Len(Displayed) |->
      IF Displayed[k] = "-" THEN " " ELSE Displayed[k]],
   GeneratePasskey([i \in 1..PasskeyChars |-> 1]),
   <<>>}

\* handleUnlock, the onClick of "Verify Identity"
HandleUnlock ==
  /\ isAuthenticated /\ vault.isLocked /\ ~vault.showPasskeyField
  /\ vault' = [vault EXCEPT !.isLocked = FALSE]
  /\ isVaultLocked' = FALSE
  /\ UNCHANGED <<user, isAuthenticated, isLoading, activeTab, syncStatus,
                 authError, settingsObj, mode, isConfigured, tokenClient,
                 accessToken, consentOpen, directoryHandle, loginPc, loginData,
                 idbDoc, fsDoc, driveVault, driveSheet, tasks, nextTask, nextId,
                 now, timers, scan, calc>>

\* "Use Recovery Passkey" / "Back to Biometrics"
ShowPasskeyField(show) ==
  /\ isAuthenticated /\ vault.isLocked /\ vault.showPasskeyField # show
  /\ vault' = [vault EXCEPT !.showPasskeyField = show]
  /\ UNCHANGED <<user, isAuthenticated, isLoading, isVaultLocked, activeTab,
                 syncStatus, authError, settingsObj, mode, isConfigured,
                 tokenClient, accessToken, consentOpen, directoryHandle, loginPc,
                 loginData, idbDoc, fsDoc, driveVault, driveSheet, tasks,
                 nextTask, nextId, now, timers, scan, calc>>

\* onChange of the passkey field
TypePasskey(input) ==
  /\ isAuthenticated /\ vault.isLocked /\ vault.showPasskeyField
  /\ vault' = [vault EXCEPT !.passkeyInput = input]
  /\ UNCHANGED <<user, isAuthenticated, isLoading, isVaultLocked, activeTab,
                 syncStatus, authError, settingsObj, mode, isConfigured,
                 tokenClient, accessToken, consentOpen, directoryHandle, loginPc,
                 loginData, idbDoc, fsDoc, driveVault, driveSheet, tasks,
                 nextTask, nextId, now, timers, scan, calc>>

\* handlePasskeyUnlock, the onClick of "Unlock Vault"; legacy is user?.legacy
HandlePasskeyUnlock ==
  /\ isAuthenticated /\ vault.isLocked /\ vault.showPasskeyField
  /\ IF RecoveryPasskey(user.legacy) = <<>>
     THEN /\ vault' = [vault EXCEPT !.error = ErrNoPasskey]
          /\ UNCHANGED isVaultLocked
     ELSE IF PasskeyAccepted(vault.passkeyInput, RecoveryPasskey(user.legacy))
     THEN /\ vault' = [vault EXCEPT !.isLocked = FALSE]
          /\ isVaultLocked' = FALSE
     ELSE /\ vault' = [vault EXCEPT !.error = ErrInvalidPasskey]
          /\ UNCHANGED isVaultLocked
  /\ UNCHANGED <<user, isAuthenticated, isLoading, activeTab, syncStatus,
                 authError, settingsObj, mode, isConfigured, tokenClient,
                 accessToken, consentOpen, directoryHandle, loginPc, loginData,
                 idbDoc, fsDoc, driveVault, driveSheet, tasks, nextTask, nextId,
                 now, timers, scan, calc>>

\* -------------------------------------------------------------------- Next
\* the login screen: initDrive and handleLogin with the promises it awaits
LoginNext ==
  \/ InitDrive
  \/ \E m \in Modes : HandleLogin(m)
  \/ \E g \in BOOLEAN : TokenCallback(g)
  \/ CheckToken
  \/ LoginTimeout
  \/ \E g \in BOOLEAN : DirectoryPicked(g)
  \/ \E ok \in BOOLEAN, t \in 0..MaxTime : FindFileDone(ok, t)
  \/ \E ok \in BOOLEAN, t \in 0..MaxTime : DownloadDone(ok, t)
  \/ \E ok \in BOOLEAN : LoginSaveFind(ok)
  \/ \E ok \in BOOLEAN : LoginSavePut(ok)

\* the mutating intents of the controller
IntentNext ==
  \/ \E c \in Currencies, t \in 0..MaxTime : AddEntry(c, t)
  \/ \E i \in 1..MaxEntries + 1, t \in 0..MaxTime : UpdateEntry(i, "Needs", t)
  \/ \E cs \in Batches, t \in 0..MaxTime : AddEntries(cs, t)
  \/ \E t \in 0..MaxTime : UpdateLegacy("K1", t)
  \/ \E t \in 0..MaxTime : AcceptTerms(t)

\* the promises and timers of the in-flight tasks settle
TaskNext ==
  \/ \E tk \in tasks, ok \in BOOLEAN : SaveLocalDone(tk, ok)
  \/ \E tk \in tasks, ok \in BOOLEAN : DriveFindDone(tk, ok)
  \/ \E tk \in tasks, ok \in BOOLEAN : DrivePutDone(tk, ok)
  \/ \E tk \in tasks, ok \in BOOLEAN : SheetFindDone(tk, ok)
  \/ \E tk \in tasks, ok \in BOOLEAN : SheetPutDone(tk, ok)
  \/ \E tk \in tasks, out \in FetchOutcomes : RatesDone(tk, out)
  \/ SyncTimer

\* the document scanner of the entry form
ScanNext ==
  \/ ScanStart
  \/ \E ok \in BOOLEAN, cs \in Batches : ScanExtracted(ok, cs)
  \/ \E ok \in BOOLEAN, t \in 0..MaxTime : ArchiveDone(ok, t)

\* the controller with its intents and the tasks they start
Next == LoginNext \/ IntentNext \/ TaskNext

Spec == Init /\ [][Next]_vars

\* the login screen alone: no login action is enabled once the session is
\* authenticated, so every behaviour of Spec starts with a behaviour of SpecLogin
SpecLogin == Init /\ [][LoginNext]_vars

\* a session whose entries come from the document scanner
NextScan == LoginNext \/ ScanNext \/ TaskNext

SpecScan == Init /\ [][NextScan]_vars

\* the vault gate
VaultNext ==
  \/ HandleUnlock
  \/ \E show \in BOOLEAN : ShowPasskeyField(show)
  \/ \E input \in TypedInputs : TypePasskey(input)
  \/ HandlePasskeyUnlock

\* a session in which a passkey is generated and the vault gate is operated;
\* the saves that updateLegacy starts stay in flight, the gate reads none of them
NextVault ==
  \/ LoginNext
  \/ VaultNext
  \/ \E t \in 0..MaxTime : UpdateLegacy("K1", t)

SpecVault == Init /\ [][NextVault]_vars

\* ---------------------------------------------------------- step predicates
\* a step in which an awaited promise of an in-flight task settles
Completion == nextTask' = nextTask /\ tasks' # tasks

\* a step in which a mutating intent of the Ready session runs
IntentStep == isAuthenticated /\ nextTask' > nextTask

\* the tasks a step starts
Started == {tk \in tasks' : tk.tid >= nextTask}

\* a step in which the syncToCloud call tk fails
SyncFails(tk) ==
  /\ tk.kind = "sync"
  /\ \/ SaveLocalDone(tk, FALSE)
     \/ DriveFindDone(tk, FALSE)
     \/ DrivePutDone(tk, FALSE)
     \/ SheetFindDone(tk, FALSE)
     \/ SheetPutDone(tk, FALSE)

\* a step in which the write of saveData(tk.data) lands in the backend
SaveLands(tk) == SaveLocalDone(tk, TRUE) \/ DrivePutDone(tk, TRUE)

\* doc is the serialisation of snapshot u, up to the mirror's identifier
IsDocumentOf(doc, u) ==
  /\ doc # NoDoc
  /\ doc = [u EXCEPT !.settings =
              [settingsObj[u.settings] EXCEPT
                 !.spreadsheetId = doc.settings.spreadsheetId]]

\* u is what createInitialData() returns
Fresh(u, heap) ==
  /\ u # NoUser
  /\ u.entries = <<>> /\ u.goals = <<>>
  /\ heap[u.settings].currency = "USD"
  /\ ~heap[u.settings].termsAccepted

\* the fields of UserData other than lastSynced
DataFields == {"entries", "goals", "exchangeRates", "legacy", "settings"}

\* -------------------------------------------------------------------- C1
\* C1: no asynchronous completion replaces the canonical snapshot with one
\* derived from an older snapshot: when a promise of an in-flight task
\* settles, the canonical snapshot stays as it is or only gains the new rate
\* table.
C1_CompletionKeepsCanonical ==
  [][Completion =>
       user' \in {user, RatesSnapshot(user, user'.exchangeRates)}]_vars

\* -------------------------------------------------------------------- C2
\* C2: addEntry(e) puts e first in the canonical snapshot in the step that
\* starts its save, the save still unresolved in that state, and whatever is
\* already in flight stays in flight; addEntry is enabled in every Ready
\* state, whatever saves are in flight (the model's budgets aside).
C2_AddEntryVisibleAtOnce ==
  /\ [](Ready /\ nextId <= MaxEntries /\ nextTask < MaxTasks
          => ENABLED (\E c \in Currencies : AddEntry(c, Tick(now))))
  /\ [][\A c \in Currencies :
          AddEntry(c, Tick(now)) =>
            /\ user'.entries = <<NewEntry(nextId, c, FALSE)>> \o user.entries
            /\ \E tk \in Started :
                 tk.kind = "sync" /\ tk.data = user' /\ tk.pc = SavePc(mode)
            /\ tasks \subseteq tasks']_vars

\* C2 witness: the entry just added is in the canonical snapshot while its
\* save and the save of an earlier mutation are both unresolved
C2_Witness ==
  /\ Ready /\ user.entries # <<>> /\ Head(user.entries).id = nextId - 1
  /\ nextId > 1
  /\ \E a, b \in tasks :
       /\ a.kind = "sync" /\ b.kind = "sync" /\ a.tid < b.tid
       /\ a.pc = SavePc(mode) /\ b.pc = SavePc(mode)
       /\ b.data = user
       /\ Len(a.data.entries) < Len(user.entries)

\* -------------------------------------------------------------------- C3
\* C3: whenever the write of a save lands, the persisted document becomes the
\* snapshot that save was given, whatever was issued before or after it: the
\* last write to land wins.
C3_LastCompletedSaveWins ==
  [][\A tk \in tasks :
       SaveLands(tk) => IsDocumentOf(PersistedDoc(mode)', tk.data)]_vars

\* C3 witness: two mutations, two saves, both completed with success, and the
\* persisted document is the older snapshot while the canonical one is newer
C3_Witness ==
  /\ Ready /\ nextTask = 3 /\ tasks = {} /\ timers = 2
  /\ PersistedDoc(mode) # NoDoc
  /\ PersistedDoc(mode).lastSynced < user.lastSynced

\* -------------------------------------------------------------------- C4
\* C4: every mutating intent yields a snapshot whose lastSynced is the
\* current timestamp and in which at most the targeted field differs from
\* the previous snapshot.
C4_IntentRefreshesLastSynced ==
  [][IntentStep =>
       /\ user'.lastSynced = now'
       /\ Cardinality({f \in DataFields : user'[f] # user[f]}) <= 1]_vars

C6_FailedSaveIsDropped ==
  /\ [](Ready /\ nextTask <= MaxTasks
          => ENABLED UpdateLegacy("K1", Tick(now)))
  /\ [][/\ \A tk \in tasks :
             SyncFails(tk) =>
               /\ syncStatus' = "idle"
               /\ tasks' = tasks \ {tk} /\ nextTask' = nextTask
               /\ timers' = timers
               /\ user' = user /\ settingsObj' = settingsObj
               /\ Ready'
        /\ IntentStep =>
             \E tk \in Started :
               tk.kind = "sync" /\ tk.data = user' /\ tk.pc = SavePc(mode)]_vars

\* C6 witness: of two mutations on fresh data the first one's save is gone
\* with nothing persisted, and the second one's save is in flight
C6_Witness ==
  /\ Ready /\ nextTask = 3 /\ timers = 0 /\ syncStatus = "syncing"
  /\ user.entries = <<>> /\ user.legacy = "K1"
  /\ settingsObj[user.settings].termsAccepted
  /\ Cardinality(tasks) = 1
  /\ \A tk \in tasks : tk.kind = "sync" /\ tk.tid = 2 /\ tk.data = user
  /\ \/ PersistedDoc(mode) = NoDoc
     \/ /\ PersistedDoc(mode).legacy = NoLegacy
        /\ ~PersistedDoc(mode).settings.termsAccepted

\* -------------------------------------------------------------------- C7
\* C7: whenever the archiving of a scanned document ends the scan, the
\* entries built from the document are in the canonical snapshot and a save
\* of that snapshot has been started, with or without attachment reference.
C7_ArchiveFailureKeepsEntries ==
  [][scan # NoScan /\ scan.pc = "archive" /\ scan' = NoScan =>
       /\ \E e \in Range(user'.entries) : e.id = nextId
       /\ \E tk \in Started : tk.kind = "sync" /\ tk.data = user']_vars

\* -------------------------------------------------------------------- C8
\* C8 as stated: a login that has passed driveService.login and finds no
\* persisted document ends with the session authenticated on fresh data.
C8_NoDocumentLoginReady ==
  [][/\ loginPc \in {"find", "download", "saveFind", "savePut"}
     /\ PersistedDoc(mode) = NoDoc
     /\ loginPc' = "idle"
     => isAuthenticated' /\ Fresh(user', settingsObj')]_vars

\* C8 amended: such a login ends authenticated on fresh data in the two local
\* modes; in drive mode it does so unless the lookup or the save of the
\* initial data fails, and then it ends as a login failure with the storage
\* error shown and no canonical data.
C8_NoDocumentLoginReadyOrStorageError ==
  [][/\ loginPc \in {"find", "download", "saveFind", "savePut"}
     /\ PersistedDoc(mode) = NoDoc
     /\ loginPc' = "idle"
     => \/ isAuthenticated' /\ Fresh(user', settingsObj') /\ authError' = NoError
        \/ /\ mode = "drive"
           /\ ~isAuthenticated' /\ user' = NoUser /\ authError' = ErrStorage]_vars

\* C8 witness: a drive login that found no document has made the session
\* authenticated on fresh data
C8_Witness ==
  /\ mode = "drive" /\ isAuthenticated /\ Fresh(user, settingsObj)
  /\ idbDoc = NoDoc /\ driveVault # <<>>

\* -------------------------------------------------------------------- C9
\* C9: when a login that finds no persisted document makes the session
\* authenticated, the initial data is persisted or its save is in flight.
C9_InitialDataSaved ==
  [][/\ ~isAuthenticated /\ isAuthenticated'
     /\ PersistedDoc(mode) = NoDoc
     => \/ PersistedDoc(mode)' # NoDoc
        \/ \E tk \in tasks' : tk.pc = SavePc(mode) /\ tk.data = user']_vars

\* ------------------------------------------------------------------- C10
\* C10: login('drive') without client credentials ends in the same step with
\* the configuration error shown, loading over, the session unauthenticated
\* without canonical data and the backend untouched; whenever no login is
\* running on the login screen, a login in each mode can be started.
C10_ConfigErrorLeavesLoginOpen ==
  /\ [](loginPc = "idle" /\ ~isLoading /\ ~isAuthenticated
          => \A m \in Modes : ENABLED HandleLogin(m))
  /\ [][HandleLogin("drive") /\ ~isConfigured =>
          /\ authError' = ErrConfig
          /\ ~isLoading' /\ loginPc' = "idle"
          /\ ~isAuthenticated' /\ user' = NoUser
          /\ <<accessToken, directoryHandle, tokenClient, consentOpen, idbDoc,
               fsDoc, driveVault, tasks>>' =
             <<accessToken, directoryHandle, tokenClient, consentOpen, idbDoc,
               fsDoc, driveVault, tasks>>]_vars

\* C10 witness: the configuration error is on the login screen and a login
\* in a local mode can be started
C10_Witness ==
  /\ authError = ErrConfig /\ mode = "drive" /\ ~isConfigured
  /\ ~isLoading /\ ~isAuthenticated /\ user = NoUser
  /\ ENABLED HandleLogin("local-db")

\* ------------------------------------------------------------------- C11
\* C11: every login('drive') attempt settles: no attempt is left with its
\* poll cleared and its promise neither resolved nor rejected.
C11_DriveLoginSettles == loginPc # "stuck"

\* ------------------------------------------------------------------- C12
\* the session state the view shows
Phase ==
  IF isAuthenticated THEN "Ready"
  ELSE IF loginPc \in {"init", "idle"} THEN "Unauthenticated"
  ELSE "Authenticating"

C13_NoHandleOfOtherMode ==
  /\ mode # "drive" => ~accessToken
  /\ mode # "local-fs" => ~directoryHandle

\* C14: when the loaded settings carry the vault-lock flag the vault gate is
\* locked as the session becomes Ready, and the gate is cleared only by a
\* passkey check that succeeds: no step unlocks it with a mismatching passkey
\* or with no passkey configured.
C14_VaultClearedOnlyByCredential ==
  /\ [][~isAuthenticated /\ isAuthenticated'
          /\ settingsObj'[user'.settings].biometricEnabled
        => isVaultLocked' /\ vault'.isLocked]_vars
  /\ [][isVaultLocked /\ ~isVaultLocked'
        => /\ RecoveryPasskey(user.legacy) # <<>>
           /\ PasskeyAccepted(vault.passkeyInput, RecoveryPasskey(user.legacy))]_vars

\* C15: a passkey check with a passkey configured unlocks the vault exactly
\* when the typed input equals the stored passkey once case, hyphens and
\* spaces are ignored on both sides; so the passkey typed as it is displayed,
\* hyphens included, unlocks.
C15_PasskeyIgnoresCaseHyphensSpaces ==
  [][HandlePasskeyUnlock /\ RecoveryPasskey(user.legacy) # <<>>
     => (~isVaultLocked' <=>
           NormalizedPasskey(vault.passkeyInput)
             = NormalizedPasskey(RecoveryPasskey(user.legacy)))]_vars

\* ------------------------------------------------------ passkey generation
\* the values of Math.floor(Math.random() * charset.length)
DrawIndices == 0..Len(Charset) - 1

\* sixteen draws: b everywhere but a at position k
DrawsOf(a, b, k) == [i \in 1..PasskeyChars |-> IF i = k THEN a ELSE b]

InitPasskey ==
  /\ NoSession
  /\ \E a \in DrawIndices, b \in DrawIndices, k \in 1..PasskeyChars :
       calc = [op |-> "draws", draws |-> DrawsOf(a, b, k)]

\* handleGeneratePasskey: the profile handed to onUpdateLegacy
GeneratedLegacy(successorName, draws) ==
  [successorName |-> IF successorName = "" THEN "Designated Successor"
                     ELSE successorName,
   recoveryPasskey |-> GeneratePasskey(draws),
   isConfigured |-> TRUE]

\* the onClick of "Generate": handleGeneratePasskey
HandleGeneratePasskey(successorName) ==
  /\ calc.op = "draws"
  /\ calc' = [op |-> "legacy", draws |-> calc.draws,
              legacy |-> GeneratedLegacy(successorName, calc.draws)]
  /\ UNCHANGED sessionVars

NextPasskey == \E n \in {"", "Ada"} : HandleGeneratePasskey(n)

SpecPasskey == InitPasskey /\ [][NextPasskey]_vars

\* C16: a generated passkey is 19 characters long: four blocks of four
\* characters of the 32-symbol alphabet (A-Z without I and O, digits 2-9),
\* single hyphens between the blocks and none at either end; 16 characters of
\* the alphabet in all; it is stored in the profile with isConfigured set.
C16_GeneratedPasskeyFormat ==
  LET alphabet == ({UpperCase[k] : k \in 1..Len(UpperCase)} \ {"I", "O"})
                    \cup {"2", "3", "4", "5", "6", "7", "8", "9"}
  IN /\ Cardinality(alphabet) = 32
     /\ {Charset[k] : k \in 1..Len(Charset)} = alphabet
     /\ calc.op = "legacy" =>
          LET p == calc.legacy.recoveryPasskey IN
          /\ Len(p) = 19
          /\ \A k \in 1..Len(p) :
               IF k \in {5, 10, 15} THEN p[k] = "-" ELSE p[k] \in alphabet
          /\ Len(SelectSeq(p, LAMBDA c : c \in alphabet)) = 16
          /\ calc.legacy.isConfigured

C16_Witness ==
  /\ calc.op = "legacy"
  /\ calc.draws = DrawsOf(31, 0, 16)
  /\ calc.legacy.recoveryPasskey[19] = "9"
  /\ calc.legacy.recoveryPasskey[1] = "A"

\* C17: after a rate refresh whose service call returned, whatever the answer
\* lists, the cached table holds the base currency at rate exactly 1, and a
\* save of the snapshot carrying the new table has been issued.
C17_RefreshKeepsBaseAtOne ==
  [][\A tk \in tasks, out \in FetchOutcomes :
       out.kind # "throw" /\ RatesDone(tk, out)
       => LET base == settingsObj[user'.settings].currency IN
          /\ base \in DOMAIN user'.exchangeRates
          /\ user'.exchangeRates[base] = 1
          /\ \E sv \in tasks' :
               /\ sv.tid = tk.tid /\ sv.pc = SavePc(mode)
               /\ sv.data = user']_vars

\* C18: a rate refresh that fails, by a failing service call or by an answer
\* that cannot be parsed, leaves the cached rate table as it was.
C18_FailedRefreshKeepsTable ==
  [][\A tk \in tasks, out \in FetchOutcomes :
       out.kind \in {"throw", "unparsable"} /\ RatesDone(tk, out)
       => user'.exchangeRates = user.exchangeRates]_vars

\* ------------------------------------------------------ currency conversion
\* an entry without the optional currency field
NoCurrency == ""

\* rates a service answer can carry, 0 among them; the amounts are multiples
\* of every non-zero rate, so that amount / rate is exact
Rates == {0, 1, 2, 3}
Amounts == {0, 6, 12}

\* data.exchangeRates: absent, or a table over some of the codes
RateTables == {NoRates} \cup UNION {[D -> Rates] : D \in SUBSET Currencies}

\* variant of GetConvertedAmount that multiplies by the rate
GetConvertedAmountTimesRate(baseCurrency, exchangeRates, amount, fromCurrency) ==
  IF fromCurrency = NoCurrency \/ fromCurrency = baseCurrency THEN amount
  ELSE IF exchangeRates # NoRates /\ fromCurrency \in DOMAIN exchangeRates
          /\ exchangeRates[fromCurrency] # 0
       THEN amount * exchangeRates[fromCurrency]
       ELSE amount

\* Dashboard.getConvertedAmount; a rate that is undefined or 0 is falsy
GetConvertedAmount(baseCurrency, exchangeRates, amount, fromCurrency) ==
  IF fromCurrency = NoCurrency \/ fromCurrency = baseCurrency THEN amount
  ELSE LET rates == IF exchangeRates = NoRates THEN <<>> ELSE exchangeRates
       IN IF fromCurrency \in DOMAIN rates /\ rates[fromCurrency] # 0
          THEN amount \div rates[fromCurrency]
          ELSE amount

\* MatrixItem.getConverted; rates?.[item.currency] is undefined without a table
GetConverted(item, baseCurrency, rates, amount) ==
  IF item.currency = NoCurrency \/ item.currency = baseCurrency THEN amount
  ELSE IF rates # NoRates /\ item.currency \in DOMAIN rates
          /\ rates[item.currency] # 0
       THEN amount \div rates[item.currency]
       ELSE amount

InitConvert ==
  /\ NoSession
  /\ \E a \in Amounts, c \in Currencies \cup {NoCurrency}, b \in Currencies,
        t \in RateTables :
       calc = [op |-> "convert", amount |-> a, currency |-> c,
               baseCurrency |-> b, rates |-> t]

\* a render of the Dashboard and of the Matrix view over the same data
Convert ==
  /\ calc.op = "convert"
  /\ calc' = [calc EXCEPT
       !.op = "converted",
       !.amount = [given |-> calc.amount,
                   dashboard |-> GetConvertedAmount(calc.baseCurrency, calc.rates,
                                                    calc.amount, calc.currency),
                   matrix |-> GetConverted([currency |-> calc.currency],
                                           calc.baseCurrency, calc.rates,
                                           calc.amount)]]
  /\ UNCHANGED sessionVars

SpecConvert == InitConvert /\ [][Convert]_vars

\* whether the rate table lists the code
InTable(c, t) == t # NoRates /\ c \in DOMAIN t

\* C19 as stated: amount / rate[currency] whenever the entry's currency is in
\* the rate table; the raw amount when it is absent from the table, absent on
\* the entry or the base currency; both views give the same value.
C19_ConversionByTable ==
  calc.op = "converted" =>
    /\ InTable(calc.currency, calc.rates)
         => calc.amount.dashboard * calc.rates[calc.currency] = calc.amount.given
    /\ \/ ~InTable(calc.currency, calc.rates)
       \/ calc.currency = NoCurrency
       \/ calc.currency = calc.baseCurrency
         => calc.amount.dashboard = calc.amount.given
    /\ calc.amount.matrix = calc.amount.dashboard

\* C19: conversion gives amount / rate[currency] when the entry's currency is
\* not the base currency and is in the rate table with a non-zero rate; it
\* gives the raw amount when the currency is absent on the entry, is the base
\* currency (whatever the table lists for it), is absent from the table or
\* has rate 0 there; both views give the same value.
C19_ConversionByUsableRate ==
  calc.op = "converted" =>
    /\ IF /\ calc.currency # NoCurrency
          /\ calc.currency # calc.baseCurrency
          /\ InTable(calc.currency, calc.rates)
          /\ calc.rates[calc.currency] # 0
       THEN calc.amount.dashboard * calc.rates[calc.currency] = calc.amount.given
       ELSE calc.amount.dashboard = calc.amount.given
    /\ calc.amount.matrix = calc.amount.dashboard

C19_Witness ==
  /\ calc.op = "converted"
  /\ calc.currency = "EUR" /\ calc.baseCurrency = "USD"
  /\ InTable("EUR", calc.rates) /\ calc.rates["EUR"] = 3
  /\ calc.amount = [given |-> 12, dashboard |-> 4, matrix |-> 4]

\* ------------------------------------------------------------- Dashboard stats
MaxList == 2       \* entries of a list under check

EntryTypes == {"ASSET", "LIABILITY", "EXPENSE", "BILL", "INSURANCE", "BENEFIT"}

\* new Date().toISOString().slice(0, 7) of the render
CurrentMonth == "2026-11"

\* (e.date || '').slice(0, 7) for a date of this month, an earlier one, none
EntryMonth ==
  [d \in {"2026-11-05", "2026-10-20", ""} |->
     IF d = "2026-11-05" THEN "2026-11" ELSE IF d = "2026-10-20" THEN "2026-10"
     ELSE ""]

StatEntries ==
  [type : EntryTypes, category : {"Income"}, amount : Amounts \ {0},
   currency : Currencies, date : DOMAIN EntryMonth]

\* every code listed with a usable rate, the base currency at 1
CompleteTables(base) ==
  {t \in [Currencies -> Rates \ {0}] : t[base] = 1}

NoStats == [assets |-> 0, debt |-> 0, burn |-> 0, monthlyInflow |-> 0, savings |-> 0]

\* variant of StatsStep that counts an asset only in the current month
StatsStepThisMonth(acc, e, base, rates, currentMonth) ==
  LET amt == GetConvertedAmount(base, rates, e.amount, e.currency)
      entryMonth == EntryMonth[e.date]
  IN IF e.type = "ASSET" /\ entryMonth = currentMonth
     THEN [acc EXCEPT !.assets = @ + amt]
     ELSE IF e.type = "LIABILITY" THEN [acc EXCEPT !.debt = @ + amt]
     ELSE acc

\* the body of data.entries.forEach in stats; Number(e.amount) || 0 is
\* e.amount for the numbers drawn
StatsStep(acc, e, base, rates, currentMonth) ==
  LET amt == GetConvertedAmount(base, rates, e.amount, e.currency)
      entryMonth == EntryMonth[e.date]
  IN IF e.type = "ASSET"
     THEN [acc EXCEPT
             !.assets = @ + amt,
             !.monthlyInflow =
                IF entryMonth = currentMonth /\ e.category = "Income"
                THEN @ + amt ELSE @,
             !.savings =
                IF entryMonth = currentMonth
                   /\ e.category \in {"Savings", "Investments"}
                THEN @ + amt ELSE @]
     ELSE IF e.type = "LIABILITY" THEN [acc EXCEPT !.debt = @ + amt]
     ELSE IF e.type \in {"EXPENSE", "BILL"} /\ entryMonth = currentMonth
     THEN [acc EXCEPT !.burn = @ + amt]
     ELSE acc

\* data.entries.forEach over the entries from position i on
RECURSIVE StatsFrom(_, _, _, _, _, _)
StatsFrom(i, acc, entries, base, rates, currentMonth) ==
  IF i > Len(entries) THEN acc
  ELSE StatsFrom(i + 1, StatsStep(acc, entries[i], base, rates, currentMonth),
                 entries, base, rates, currentMonth)

\* Dashboard stats: the totals, netWorth = assets - debt and netFlow (the
\* rounded ratios derived from the totals are left out)
Stats(entries, base, rates, currentMonth) ==
  LET acc == StatsFrom(1, NoStats, entries, base, rates, currentMonth)
  IN [assets |-> acc.assets, debt |-> acc.debt,
      netWorth |-> acc.assets - acc.debt, burn |-> acc.burn,
      monthlyInflow |-> acc.monthlyInflow,
      netFlow |-> acc.monthlyInflow - acc.burn]

InitStats ==
  /\ NoSession
  /\ \E n \in 0..MaxList :
       \E es \in [1..n -> StatEntries], t \in CompleteTables(BaseCurrency) :
         calc = [op |-> "entries", entries |-> es, rates |-> t]

\* a render of the Dashboard
RenderStats ==
  /\ calc.op = "entries"
  /\ calc' = [op |-> "stats", entries |-> calc.entries, rates |-> calc.rates,
              stats |-> Stats(calc.entries, BaseCurrency, calc.rates,
                              CurrentMonth)]
  /\ UNCHANGED sessionVars

SpecStats == InitStats /\ [][RenderStats]_vars

\* the sum of the base-converted amounts of the entries of one type
RECURSIVE ConvertedSum(_, _, _, _)
ConvertedSum(entries, type, base, rates) ==
  IF entries = <<>> THEN 0
  ELSE (IF Head(entries).type = type
        THEN GetConvertedAmount(base, rates, Head(entries).amount,
                                Head(entries).currency)
        ELSE 0)
       + ConvertedSum(Tail(entries), type, base, rates)

\* C20: with a complete rate table, net worth is the sum of the converted
\* amounts of all ASSET entries minus that of all LIABILITY entries, whatever
\* the entries' dates (a missing date included); entries of the other four
\* types contribute nothing.
C20_NetWorthIsAssetsMinusLiabilities ==
  calc.op = "stats" =>
    calc.stats.netWorth
      = ConvertedSum(calc.entries, "ASSET", BaseCurrency, calc.rates)
          - ConvertedSum(calc.entries, "LIABILITY", BaseCurrency, calc.rates)

C20_Witness ==
  /\ calc.op = "stats"
  /\ Len(calc.entries) = 2
  /\ calc.entries[1].type = "ASSET" /\ calc.entries[1].date = ""
  /\ calc.entries[1].currency = "EUR" /\ calc.entries[1].amount = 12
  /\ calc.entries[2].type = "LIABILITY" /\ calc.entries[2].date = "2026-10-20"
  /\ calc.entries[2].currency = "USD" /\ calc.entries[2].amount = 6
  /\ calc.rates["EUR"] = 3
  /\ calc.stats.netWorth = -2

\* ------------------------------------------------------- six-month flow series
FlowMonths == 6    \* Array.from({ length: 6 })

\* the years of the current dates under check: a common year and a leap year
Years == {2023, 2024}

DaysIn(y, m) ==
  IF m = 2
  THEN (IF y % 4 = 0 /\ (y % 100 # 0 \/ y % 400 = 0) THEN 29 ELSE 28)
  ELSE IF m \in {4, 6, 9, 11} THEN 30 ELSE 31

\* new Date(): a calendar date (the clock is read in UTC)
Dates == {d \in [y : Years, m : 1..12, d : 1..31] : d.d <= DaysIn(d.y, d.m)}

\* the calendar month k months before month m of year y
MonthsBack(y, m, k) ==
  LET n == (y * 12 + (m - 1)) - k IN [y |-> n \div 12, m |-> (n % 12) + 1]

\* d.setMonth(d.getMonth() - i): the day of the month is kept, and a day the
\* target month does not have runs over into the month after it
SetMonthBack(date, i) ==
  LET t == MonthsBack(date.y, date.m, i)
  IN IF date.d <= DaysIn(t.y, t.m) THEN [y |-> t.y, m |-> t.m, d |-> date.d]
     ELSE LET nx == MonthsBack(t.y, t.m, -1)
          IN [y |-> nx.y, m |-> nx.m, d |-> date.d - DaysIn(t.y, t.m)]

NoDate == [none |-> "date"]     \* an entry without a date

\* toISOString().slice(0, 7) of a date, (e.date || '').slice(0, 7) of an entry
MonthKey(date) == IF date = NoDate THEN <<>> ELSE <<date.y, date.m>>

\* flowChartData lines 61-64: the six month keys, reversed
MonthsOfSeries(today) ==
  [k \in 1..FlowMonths |-> MonthKey(SetMonthBack(today, FlowMonths - k))]

\* one of Income / Expenses of month key m: the forEach of lines 68-74
RECURSIVE FlowSum(_, _, _)
FlowSum(entries, m, income) ==
  IF entries = <<>> THEN 0
  ELSE LET e == Head(entries)
           amt == GetConvertedAmount(BaseCurrency, NoRates, e.amount, e.currency)
       IN (IF MonthKey(e.date) = m
           THEN IF e.type = "ASSET" /\ e.category = "Income"
                THEN (IF income THEN amt ELSE 0)
                ELSE IF e.type \in {"EXPENSE", "BILL"}
                THEN (IF income THEN 0 ELSE amt)
                ELSE 0
           ELSE 0)
          + FlowSum(Tail(entries), m, income)

\* flowChartData
FlowChartData(entries, today) ==
  [k \in 1..FlowMonths |->
     [month |-> MonthsOfSeries(today)[k],
      Income |-> FlowSum(entries, MonthsOfSeries(today)[k], TRUE),
      Expenses |-> FlowSum(entries, MonthsOfSeries(today)[k], FALSE)]]

\* entries dated on the first of the month k months before today, or undated
FlowEntries(today) ==
  [type : {"ASSET", "LIABILITY", "EXPENSE", "BILL"},
   category : {"Income", "Needs"}, amount : {6}, currency : {BaseCurrency},
   date : {NoDate} \cup
          {[y |-> MonthsBack(today.y, today.m, k).y,
            m |-> MonthsBack(today.y, today.m, k).m, d |-> 1] : k \in {0, 1, 6}}]

InitFlow ==
  /\ NoSession
  /\ \E today \in Dates :
       \E es \in {<<>>} \cup {<<e>> : e \in FlowEntries(today)} :
         calc = [op |-> "today", today |-> today, entries |-> es]

\* a render of the Dashboard's flow chart
RenderFlow ==
  /\ calc.op = "today"
  /\ calc' = [op |-> "flow", today |-> calc.today, entries |-> calc.entries,
              series |-> FlowChartData(calc.entries, calc.today)]
  /\ UNCHANGED sessionVars

SpecFlow == InitFlow /\ [][RenderFlow]_vars

\* C21: whatever the current date, the series covers six distinct consecutive
\* calendar months that end with the current month, oldest first.
C21_SeriesCoversSixMonths ==
  calc.op = "flow" =>
    \A k \in 1..FlowMonths :
      calc.series[k].month
        = MonthKey(MonthsBack(calc.today.y, calc.today.m, FlowMonths - k))

\* ------------------------------------------------- remote lookup-or-create
MaxCalls == 3      \* lookup-or-create calls made one after the other

FILE_NAME == "finaa_vault_v1.json"
SHEET_NAME == "FinAA - Financial Archive (Live)"
ROOT_FOLDER_NAME == "FinAA Archive"
MonthStr == "2026-11"            \* date.slice(0, 7) of a statement

\* an object of the remote store; its id is its position, parent 0 is the root
RemoteObjects ==
  [name : {FILE_NAME, SHEET_NAME, ROOT_FOLDER_NAME, MonthStr}, parent : {0, 1},
   trashed : BOOLEAN]

\* the calls of the lookup-or-create path; parentId 0 is an absent parentId
Lookups(files) ==
  {[method |-> "saveData", name |-> FILE_NAME, parentId |-> 0],
   [method |-> "syncToSpreadsheet", name |-> SHEET_NAME, parentId |-> 0],
   [method |-> "ensureFolder", name |-> ROOT_FOLDER_NAME, parentId |-> 0]}
  \cup {[method |-> "ensureFolder", name |-> MonthStr, parentId |-> p] :
          p \in 1..Len(files)}

\* the objects the query of findFile(name, parentId) selects
Matching(files, name, parentId) ==
  {i \in 1..Len(files) :
     /\ files[i].name = name /\ ~files[i].trashed
     /\ parentId # 0 => files[i].parent = parentId}

\* variant of FindFile that finds nothing
FindFileFindsNothing(files, name, parentId) == 0

\* findFile in drive mode: files[0].id, or null (0) when the list is empty
FindFile(files, name, parentId) ==
  IF Matching(files, name, parentId) = {} THEN 0
  ELSE CHOOSE i \in Matching(files, name, parentId) :
         \A j \in Matching(files, name, parentId) : i <= j

NoCall == [none |-> "call"]

InitLookup ==
  /\ NoSession
  /\ \E fs \in {<<>>} \cup {<<f>> : f \in RemoteObjects} :
       calc = [op |-> "remote", files |-> fs, call |-> NoCall, returned |-> <<>>]

\* ensureFolder / saveData / syncToSpreadsheet called: findFile is awaited
CallLookup(c) ==
  /\ calc.op = "remote" /\ calc.call = NoCall
  /\ Len(calc.returned) < MaxCalls
  /\ c \in Lookups(calc.files)
  /\ calc' = [calc EXCEPT !.call = [method |-> c.method, name |-> c.name,
                                    parentId |-> c.parentId, pc |-> "find",
                                    fileId |-> 0]]
  /\ UNCHANGED sessionVars

\* findFile settles: ensureFolder returns the existing id (line 444); the
\* others go on to their upload with the id, or without one
FindSettles(ok) ==
  /\ calc.op = "remote" /\ calc.call # NoCall /\ calc.call.pc = "find"
  /\ LET c == calc.call
         existing == FindFile(calc.files, c.name, c.parentId)
     IN calc' =
          IF ~ok THEN [calc EXCEPT !.call = NoCall]
          ELSE IF c.method = "ensureFolder" /\ existing # 0
          THEN [calc EXCEPT !.call = NoCall,
                            !.returned = Append(@, [name |-> c.name,
                                                    parentId |-> c.parentId,
                                                    id |-> existing])]
          ELSE [calc EXCEPT !.call.pc = "write", !.call.fileId = existing]
  /\ UNCHANGED sessionVars

\* files.create of ensureFolder, or the PATCH / POST of the upload, settles
WriteSettles(ok) ==
  /\ calc.op = "remote" /\ calc.call # NoCall /\ calc.call.pc = "write"
  /\ LET c == calc.call
         id == IF c.fileId # 0 THEN c.fileId ELSE Len(calc.files) + 1
     IN calc' =
          IF ~ok THEN [calc EXCEPT !.call = NoCall]
          ELSE [calc EXCEPT
                  !.call = NoCall,
                  !.files = IF c.fileId # 0 THEN @
                            ELSE Append(@, [name |-> c.name, parent |-> c.parentId,
                                            trashed |-> FALSE]),
                  !.returned = Append(@, [name |-> c.name, parentId |-> c.parentId,
                                          id |-> id])]
  /\ UNCHANGED sessionVars

NextLookup ==
  \/ \E c \in Lookups(calc.files) : CallLookup(c)
  \/ \E ok \in BOOLEAN : FindSettles(ok)
  \/ \E ok \in BOOLEAN : WriteSettles(ok)

SpecLookup == InitLookup /\ [][NextLookup]_vars

\* C23: of two lookup-or-create calls made one after the other for the same
\* name and parent, the second returns the identifier the first returned, and
\* after a call has returned exactly one object matches its name and parent.
C23_LookupOrCreateIdempotent ==
  calc.op = "remote" =>
    /\ \A i \in 1..Len(calc.returned) - 1 :
         LET r == calc.returned[i]
             s == calc.returned[i + 1]
         IN r.name = s.name /\ r.parentId = s.parentId => r.id = s.id
    /\ \A i \in 1..Len(calc.returned) :
         Cardinality(Matching(calc.files, calc.returned[i].name,
                              calc.returned[i].parentId)) = 1

\* C23 witness: the month folder was created under the root folder by a first
\* call and found again by the second
C23_Witness ==
  /\ calc.op = "remote" /\ Len(calc.returned) = 3
  /\ calc.returned[1].name = ROOT_FOLDER_NAME
  /\ calc.returned[2] = [name |-> MonthStr, parentId |-> calc.returned[1].id,
                         id |-> Len(calc.files)]
  /\ calc.returned[3] = calc.returned[2]
  /\ Len(calc.files) = 2

\* --------------------------------------------------------- LocalDbService
MaxSaves == 3      \* save(key, value) calls on the one key

NoValue == 0       \* store.get of a key never written: undefined
Values == {1, 2}   \* the values saved

NoRead == [none |-> "read"]

\* the store is open, the key unwritten, nothing called
InitLocalDb ==
  /\ NoSession
  /\ calc = [op |-> "idb", store |-> NoValue, txs |-> <<>>, read |-> NoRead]

\* the readwrite transactions of one store run in the order of their creation
Finished(tx) == tx.tx \in {"complete", "abort"}

Runs(i) ==
  /\ i \in 1..Len(calc.txs) /\ calc.txs[i].tx = "active"
  /\ \A j \in 1..i - 1 : Finished(calc.txs[j])

\* save lines 31-33: a readwrite transaction with one put request; the promise
\* is pending
Save(v) ==
  /\ calc.op = "idb" /\ Len(calc.txs) < MaxSaves
  /\ calc' = [calc EXCEPT !.txs = Append(@, [value |-> v, request |-> "pending",
                                            tx |-> "active", promise |-> "pending"])]
  /\ UNCHANGED sessionVars

\* save line 34: request.onsuccess, resolve(); the transaction is still active
PutSucceeds(i) ==
  /\ calc.op = "idb" /\ Runs(i) /\ calc.txs[i].request = "pending"
  /\ calc' = [calc EXCEPT !.txs[i].request = "success",
                          !.txs[i].promise = "resolved"]
  /\ UNCHANGED sessionVars

\* save line 35: request.onerror, reject(request.error); the transaction aborts
PutFails(i) ==
  /\ calc.op = "idb" /\ Runs(i) /\ calc.txs[i].request = "pending"
  /\ calc' = [calc EXCEPT !.txs[i].request = "error",
                          !.txs[i].promise = "rejected",
                          !.txs[i].tx = "abort"]
  /\ UNCHANGED sessionVars

\* the transaction commits: its value is the stored one (no handler in save)
TxCompletes(i) ==
  /\ calc.op = "idb" /\ Runs(i) /\ calc.txs[i].request = "success"
  /\ calc' = [calc EXCEPT !.txs[i].tx = "complete", !.store = calc.txs[i].value]
  /\ UNCHANGED sessionVars

\* the commit fails (quota, I/O error) and the transaction aborts after its
\* request succeeded: the store keeps what it had (no handler in save)
TxAborts(i) ==
  /\ calc.op = "idb" /\ Runs(i) /\ calc.txs[i].request = "success"
  /\ calc' = [calc EXCEPT !.txs[i].tx = "abort"]
  /\ UNCHANGED sessionVars

\* get lines 42-45: a readonly transaction, run once the earlier transactions
\* have finished; saves is the number of saves called before it
Get ==
  /\ calc.op = "idb"
  /\ \A j \in 1..Len(calc.txs) : Finished(calc.txs[j])
  /\ calc' = [calc EXCEPT !.read = [saves |-> Len(calc.txs), result |-> calc.store]]
  /\ UNCHANGED sessionVars

NextLocalDb ==
  \/ \E v \in Values : Save(v)
  \/ \E i \in 1..MaxSaves : PutSucceeds(i)
  \/ \E i \in 1..MaxSaves : PutFails(i)
  \/ \E i \in 1..MaxSaves : TxCompletes(i)
  \/ \E i \in 1..MaxSaves : TxAborts(i)
  \/ Get

SpecLocalDb == InitLocalDb /\ [][NextLocalDb]_vars

\* C24: whenever save has resolved its transaction has committed, so a
\* transaction that aborts never leaves its save resolved, and a get made
\* after the last save returns the value of that save if it resolved.
C24_ResolvedSaveIsCommitted ==
  calc.op = "idb" =>
    /\ \A i \in 1..Len(calc.txs) :
         calc.txs[i].promise = "resolved" => calc.txs[i].tx = "complete"
    /\ /\ calc.read # NoRead /\ calc.read.saves = Len(calc.txs)
       /\ calc.txs # <<>> /\ calc.txs[Len(calc.txs)].promise = "resolved"
       => calc.read.result = calc.txs[Len(calc.txs)].value

\* ------------------------------------------------------ entries of the ledger
MaxLedger == 3     \* entries of the canonical list

\* the value that is not a number, kept apart from every amount of the model
NaN == 0 - 999
IsNaN(x) == x = NaN

Digits == <<"0", "1", "2", "3", "4", "5", "6", "7", "8", "9">>
IsDigit(c) == \E k \in 1..Len(Digits) : Digits[k] = c
DigitValue(c) == (CHOOSE k \in 1..Len(Digits) : Digits[k] = c) - 1

\* the value of the leading run of digits of s, after the digits read so far
RECURSIVE DigitRun(_, _)
DigitRun(s, acc) ==
  IF s = <<>> \/ ~IsDigit(Head(s)) THEN acc
  ELSE DigitRun(Tail(s), acc * 10 + DigitValue(Head(s)))

\* parseFloat on a text of digits with an optional sign: NaN when no digit
\* follows the sign
ParseFloat(s) ==
  LET body == IF s # <<>> /\ Head(s) = "-" THEN Tail(s) ELSE s
  IN IF body = <<>> \/ ~IsDigit(Head(body)) THEN NaN
     ELSE IF s # body THEN 0 - DigitRun(body, 0) ELSE DigitRun(body, 0)

\* Math.abs
Abs(x) == IF IsNaN(x) THEN NaN ELSE IF x < 0 THEN 0 - x ELSE x

\* what is typed into the number field of the form, or found in the amount
\* column of a CSV file (the last one only there)
AmountTexts == {<<"5">>, <<"-", "5">>, <<"0">>, <<>>}
CsvTexts == AmountTexts \cup {<<"n", "/", "a">>}

\* res.amount of a transaction the document scanner extracted; NoAmount when
\* the answer has none
NoAmount == 0 - 1000
ScannedAmounts == {NoAmount, 0, 5, 0 - 5}

\* result.estimatedValue of estimatePropertyValuation: digits of the answer
EstimatedValues == {0, 7}

\* the entries of a loaded document: identifiers are not checked on load
LoadedEntries ==
  [id : {1, 2}, amount : {5}, type : {"ASSET"}, category : {"Wants"}]

InitLedger ==
  /\ NoSession
  /\ \E n \in 0..2 : \E es \in [1..n -> LoadedEntries] :
       calc = [op |-> "ledger", user |-> [entries |-> es, lastSynced |-> 0],
               nextId |-> 3]

\* FinanceForms.handleSubmit -> onAdd -> addEntry
HandleSubmit(text, type) ==
  /\ calc.op = "ledger" /\ Len(calc.user.entries) < MaxLedger
  /\ text # <<>>                       \* if (!formData.amount) return
  /\ LET e == [id |-> calc.nextId, amount |-> ParseFloat(text), type |-> type,
               category |-> "Wants"]
     IN calc' = [calc EXCEPT !.user = AddEntrySnapshot(@, e, 1),
                             !.nextId = @ + 1]
  /\ UNCHANGED sessionVars

\* FinanceForms.handleFileUpload lines 88-107 -> onAddBulk -> addEntries
HandleFileUpload(amounts) ==
  /\ calc.op = "ledger" /\ Len(calc.user.entries) + Len(amounts) <= MaxLedger
  /\ amounts # <<>>
  /\ LET es == [k \in 1..Len(amounts) |->
                  [id |-> calc.nextId + k - 1,
                   amount |-> IF amounts[k] \in {NoAmount, 0} THEN 0
                              ELSE amounts[k],
                   type |-> "EXPENSE", category |-> "General"]]
     IN calc' = [calc EXCEPT !.user = AddEntriesSnapshot(@, es, 1),
                             !.nextId = @ + Len(amounts)]
  /\ UNCHANGED sessionVars

\* CsvImporter.mapToEntry
MapToEntry(id, text) ==
  LET amountStr == IF text = <<>> THEN <<"0">> ELSE text
      parsed == ParseFloat(amountStr)
      isCredit == ~IsNaN(parsed) /\ parsed > 0
  IN [id |-> id, amount |-> Abs(parsed),
      type |-> IF isCredit THEN "ASSET" ELSE "EXPENSE",
      category |-> IF isCredit THEN "Income" ELSE "Wants"]

\* CsvImporter reader.onload -> onImport -> addEntries
HandleFileChange(texts) ==
  /\ calc.op = "ledger" /\ Len(calc.user.entries) + Len(texts) <= MaxLedger
  /\ LET es == [k \in 1..Len(texts) |-> MapToEntry(calc.nextId + k - 1, texts[k])]
     IN calc' = [calc EXCEPT !.user = AddEntriesSnapshot(@, es, 1),
                             !.nextId = @ + Len(texts)]
  /\ UNCHANGED sessionVars

\* ArchiveLedger.handleRevaluate lines 51-59 -> onUpdateEntry -> updateEntry
HandleRevaluate(i, estimatedValue) ==
  /\ calc.op = "ledger" /\ i \in 1..Len(calc.user.entries)
  /\ LET entry == calc.user.entries[i]
         x == [entry EXCEPT !.amount = IF estimatedValue # 0 THEN estimatedValue
                                       ELSE @]
     IN calc' = [calc EXCEPT !.user = UpdateEntrySnapshot(@, x, 1)]
  /\ UNCHANGED sessionVars

\* MatrixItem.handleCategoryChange -> onUpdate -> updateEntry
HandleCategoryChange(i, cat) ==
  /\ calc.op = "ledger" /\ i \in 1..Len(calc.user.entries)
  /\ LET x == [calc.user.entries[i] EXCEPT !.category = cat]
     IN calc' = [calc EXCEPT !.user = UpdateEntrySnapshot(@, x, 1)]
  /\ UNCHANGED sessionVars

NextLedger ==
  \/ \E text \in AmountTexts, type \in {"ASSET", "EXPENSE"} : HandleSubmit(text, type)
  \/ \E a \in ScannedAmounts, b \in ScannedAmounts :
       HandleFileUpload(<<a>>) \/ HandleFileUpload(<<a, b>>)
  \/ \E a \in CsvTexts, b \in CsvTexts :
       HandleFileChange(<<>>) \/ HandleFileChange(<<a>>) \/ HandleFileChange(<<a, b>>)
  \/ \E i \in 1..MaxLedger, v \in EstimatedValues : HandleRevaluate(i, v)
  \/ \E i \in 1..MaxLedger, cat \in {"Needs", "Wants"} : HandleCategoryChange(i, cat)

SpecLedger == InitLedger /\ [][NextLedger]_vars

\* C25: every entry of the canonical list has amount >= 0, whichever of the
\* form, the document scan, the CSV import, the re-valuation and the category
\* update produced or changed it.
C25_AmountsNonNegative ==
  calc.op = "ledger" =>
    \A i \in 1..Len(calc.user.entries) :
      /\ ~IsNaN(calc.user.entries[i].amount)
      /\ calc.user.entries[i].amount >= 0

\* ------------------------------------- addEntry, updateEntry and addEntries
\* the entries the three functions are called with; a loaded list may hold an
\* identifier twice
CallEntries ==
  [id : {1, 2, 3}, amount : {5, 6}, type : {"ASSET"}, category : {"Wants"}]

NoEntryCall == [fn |-> "none"]

InitEntries ==
  /\ NoSession
  /\ \E n \in 0..2 : \E es \in [1..n -> LoadedEntries] :
       calc = [op |-> "entries", user |-> [entries |-> es, lastSynced |-> 0],
               call |-> NoEntryCall, before |-> es]

\* a call of fn with argument arg that leaves the snapshot next
EntryCall(fn, arg, next) ==
  /\ calc.op = "entries"
  /\ Len(next.entries) <= MaxLedger
  /\ calc' = [calc EXCEPT !.user = next, !.call = [fn |-> fn, arg |-> arg],
                          !.before = calc.user.entries]
  /\ UNCHANGED sessionVars

AddEntryCall(e) == EntryCall("addEntry", e, AddEntrySnapshot(calc.user, e, 1))

UpdateEntryCall(x) ==
  EntryCall("updateEntry", x, UpdateEntrySnapshot(calc.user, x, 1))

AddEntriesCall(es) ==
  EntryCall("addEntries", es, AddEntriesSnapshot(calc.user, es, 1))

NextEntries ==
  \/ \E e \in CallEntries : AddEntryCall(e)
  \/ \E x \in CallEntries : UpdateEntryCall(x)
  \/ \E n \in 0..2 : \E es \in [1..n -> CallEntries] : AddEntriesCall(es)

SpecEntries == InitEntries /\ [][NextEntries]_vars

\* C29: updateEntry(x) puts x at the position of every entry whose id is x.id
\* and leaves the other entries, the order and the count alone (the list is
\* unchanged when no id matches); addEntry puts the new entry first and
\* addEntries the batch first, in the order given, before the old list.
C29_ListOperations ==
  calc.op = "entries" =>
    LET before == calc.before
        after == calc.user.entries
        arg == calc.call.arg
    IN /\ calc.call.fn = "updateEntry" =>
            /\ Len(after) = Len(before)
            /\ \A i \in 1..Len(before) :
                 after[i] = IF before[i].id = arg.id THEN arg ELSE before[i]
            /\ (\A i \in 1..Len(before) : before[i].id # arg.id) => after = before
       /\ calc.call.fn = "addEntry" =>
            /\ Len(after) = Len(before) + 1
            /\ after[1] = arg
            /\ \A i \in 1..Len(before) : after[i + 1] = before[i]
       /\ calc.call.fn = "addEntries" =>
            /\ Len(after) = Len(arg) + Len(before)
            /\ \A i \in 1..Len(arg) : after[i] = arg[i]
            /\ \A i \in 1..Len(before) : after[Len(arg) + i] = before[i]

\* updateEntry has replaced both entries of an identifier held twice and kept
\* the entry between them
C29_Witness ==
  /\ calc.op = "entries" /\ calc.call.fn = "updateEntry"
  /\ Len(calc.before) = 3
  /\ calc.before[1].id = calc.call.arg.id /\ calc.before[1] # calc.call.arg
  /\ calc.before[2].id # calc.call.arg.id
  /\ calc.before[3].id = calc.call.arg.id /\ calc.before[3] # calc.call.arg
  /\ calc.user.entries = <<calc.call.arg, calc.before[2], calc.call.arg>>

\* a session whose saves run one after the other: an intent that starts one
\* save, taken only when nothing is in flight
NextSequential ==
  \/ LoginNext
  \/ tasks = {} /\ \E i \in 1..MaxEntries + 1, t \in 0..MaxTime :
                     UpdateEntry(i, "Needs", t)
  \/ tasks = {} /\ \E t \in 0..MaxTime : UpdateLegacy("K1", t)
  \/ tasks = {} /\ \E t \in 0..MaxTime : AcceptTerms(t)
  \/ TaskNext

SpecSequential == Init /\ [][NextSequential]_vars

ValuationOutcomes ==
  {[kind |-> "nokey"], [kind |-> "throw"]} \cup
  {[kind |-> "value", estimatedValue |-> v] : v \in EstimatedValues}

\* ArchiveLedger.handleRevaluate up to its first await, for an entry that has
\* an address; the handler keeps the entry it was called with and the
\* onUpdateEntry of the render it was created in, whose `user` is today's
RevaluateStart(i) ==
  /\ Ready /\ calc = NoCalc
  /\ i \in 1..Len(user.entries)
  /\ calc' = [op |-> "revaluate", entry |-> user.entries[i], base |-> user]
  /\ UNCHANGED sessionVars

\* handleRevaluate lines 37-65: the awaits settle; with an estimate the entry
\* kept by the handler is updated and handed to onUpdateEntry (updateEntry)
RevaluateDone(out, t) ==
  /\ calc.op = "revaluate" /\ NoMicrotask
  /\ t = Tick(now)
  /\ calc' = NoCalc
  /\ IF out.kind # "value"
     THEN UNCHANGED <<user, settingsObj, syncStatus, tasks, nextTask, now>>
     ELSE LET x == [calc.entry EXCEPT
                      !.amount = IF out.estimatedValue # 0
                                 THEN out.estimatedValue ELSE @]
          IN /\ Commit(UpdateEntrySnapshot(calc.base, x, t), settingsObj,
                       "updateEntry")
             /\ now' = t
  /\ UNCHANGED <<isAuthenticated, isLoading, isVaultLocked, vault, activeTab,
                 authError, mode, isConfigured, tokenClient, accessToken,
                 consentOpen, directoryHandle, loginPc, loginData, idbDoc, fsDoc,
                 driveVault, driveSheet, timers, scan, nextId>>

\* the valuation is the only thing in flight when the user changes something
NextRevalue ==
  \/ LoginNext
  \/ tasks = {} /\ \E i \in 1..MaxEntries + 1, t \in 0..MaxTime :
                     UpdateEntry(i, "Needs", t)
  \/ tasks = {} /\ \E t \in 0..MaxTime : UpdateLegacy("K1", t)
  \/ \E i \in 1..MaxEntries + 1 : RevaluateStart(i)
  \/ \E out \in ValuationOutcomes, t \in 0..MaxTime : RevaluateDone(out, t)
  \/ TaskNext

\* a session in which properties are re-valued
SpecRevalue == Init /\ [][NextRevalue]_vars

C28_SyncingWhileSaveInFlight ==
  (\E tk \in tasks : tk.kind = "sync") => syncStatus = "syncing"

\* -------------------------------------------------------------------- C30
\* C30: in drive mode at most one vault document and at most one mirror
\* document exist, however the saves started by mutations interleave.
C30_OneVaultOneMirror ==
  mode = "drive" => Len(driveVault) <= 1 /\ Len(driveSheet) <= 1

\* -------------------------------------------------------------------- C26
\* C26: in drive mode every save of the vault document that lands is followed
\* by the rewrite of the mirror from the same snapshot (the task goes on to
\* syncToSpreadsheet with its entries) or follows it (the second save of
\* syncToCloud, after the mirror's identifier was recorded).
C26_VaultSaveRewritesMirror ==
  [][\A tk \in tasks :
       DrivePutDone(tk, TRUE) =>
         \/ tk.pc = "put2"
         \/ \E o \in tasks' : /\ o.tid = tk.tid /\ o.pc = "sheetFind"
                              /\ o.data.entries = tk.data.entries]_vars

====
